---- MODULE Spec2Model ----
(***************************************************************************)
(* A model of slack-server.py: the client registry (clients, client_info), *)
(* the per-connection handler loop, the action handlers and the three      *)
(* fan-outs, over a document store of workspaces, channels, messages and   *)
(* users.                                                                  *)
(*                                                                         *)
(* One task runs per connection on a single-threaded event loop.  A task   *)
(* gives up control only at an await, so each action below is the code of  *)
(* one task from one await to the next.  A store call takes effect in the  *)
(* step that resumes from it; websocket.send hands the envelope to the     *)
(* connection when it is called and may then suspend.                      *)
(***************************************************************************)
EXTENDS Integers, Sequences, FiniteSets, TLC

----------------------------------------------------------------------------
(* Bounds of the model. *)

MaxSessions == 3

MaxFrames == 2

MaxRequests == 3

MaxClock == 2

MaxWriters == 2

\* The store calls that raise.
MaxFaults == 2

\* The requests of a history in which channels are deleted one by one.
MaxOrders == 4

Sessions == 1..MaxSessions

----------------------------------------------------------------------------
(* Names.  A name is a sequence of characters; " " is whitespace, "#" the  *)
(* channel prefix, and any other entry stands for a run of characters that *)
(* no strip removes.                                                       *)

Whitespace == {" "}

Hash == {"#"}

RECURSIVE lstrip(_, _)
lstrip(chars, name) ==
    IF name # <<>> /\ Head(name) \in chars
    THEN lstrip(chars, Tail(name))
    ELSE name

RECURSIVE rstrip(_, _)
rstrip(chars, name) ==
    IF name # <<>> /\ name[Len(name)] \in chars
    THEN rstrip(chars, SubSeq(name, 1, Len(name) - 1))
    ELSE name

\* str.strip(chars)
strip(chars, name) == rstrip(chars, lstrip(chars, name))

\* A key the frame does not carry, and Python's None.
Absent == <<"<absent>">>

None == <<"<None>">>

Default == <<"default">>

Unknown == <<"Unknown">>

\* dict.get(key, default)
Get(data, key, default) == IF data[key] = Absent THEN default ELSE data[key]

\* The names initialize_db seeds: the workspace and its two channels.
LabName == <<"lab">>

AllName == <<"all">>

SocialName == <<"social">>

\* The characters of the model in code-point order ("a" < "b" stands for the
\* order of the strings they abbreviate), and the order sort("name", 1) uses.
Alphabet == <<" ", "#", "all", "default", "ghost", "lab", "news", "social">>

CharRank(c) == CHOOSE i \in DOMAIN Alphabet : Alphabet[i] = c

RECURSIVE NameLess(_, _)
NameLess(a, b) ==
    IF a = <<>> THEN b # <<>>
    ELSE IF b = <<>> THEN FALSE
    ELSE IF Head(a) = Head(b) THEN NameLess(Tail(a), Tail(b))
    ELSE CharRank(Head(a)) < CharRank(Head(b))

----------------------------------------------------------------------------
(* Frames: the parsed inbound envelope.                                    *)

FrameKeys == {"workspace", "channel", "message", "sender", "workspace_name",
              "channel_name", "old_name", "new_name", "username", "query"}

Frame(action, fields) ==
    [k \in FrameKeys \cup {"action"} |->
        IF k = "action" THEN action
        ELSE IF k \in DOMAIN fields THEN fields[k] ELSE Absent]

NoFrame == Frame("", <<>>)

----------------------------------------------------------------------------
VARIABLES
    clients,      \* the set of registered connections
    client_info,  \* connection -> [user_id, workspace]
    workspaces,   \* the collections, each in insertion order
    channels,
    messages,
    users,
    nextId,       \* the next ObjectId
    clock,        \* datetime.now(), in stored (millisecond) resolution
    pc,           \* each connection's task: where it is suspended
    loc,          \* each task's local variables
    inbox,        \* frames received on a connection and not yet handled
    outbox,       \* the envelope last handed to each connection
    journal,      \* history: the channels created and deleted by request
    dead,         \* registered connections whose socket has been closed
    faults,       \* the store calls that have raised so far
    hung          \* the connections whose peer has stopped reading

vars == <<clients, client_info, workspaces, channels, messages, users,
          nextId, clock, pc, loc, inbox, outbox, journal, dead, faults,
          hung>>

store == <<workspaces, channels, messages, users, nextId>>

registry == <<clients, client_info>>

\* What the handlers leave alone: the clock, the frames in flight, the
\* history, and what goes wrong outside the program.
aside == <<clock, inbox, journal, dead, faults, hung>>

----------------------------------------------------------------------------
(* The store.                                                              *)

NoWorkspace == [id |-> 0, name |-> <<>>]

NoChannel == [id |-> 0, name |-> <<>>, workspace_id |-> 0]

NoUser == [id |-> 0, username |-> <<>>]

Min(S) == CHOOSE x \in S : \A y \in S : x <= y

\* find_one on workspaces: the first document in natural order, or None.
FindWorkspaceByName(name) ==
    LET hit == {i \in DOMAIN workspaces : workspaces[i].name = name}
    IN IF hit = {} THEN NoWorkspace ELSE workspaces[Min(hit)]

FindAnyWorkspace ==
    IF workspaces = <<>> THEN NoWorkspace ELSE workspaces[1]

FindChannel(name, wid) ==
    LET hit == {i \in DOMAIN channels :
                    channels[i].name = name /\ channels[i].workspace_id = wid}
    IN IF hit = {} THEN NoChannel ELSE channels[Min(hit)]

FindAnyChannel(wid) ==
    LET hit == {i \in DOMAIN channels : channels[i].workspace_id = wid}
    IN IF hit = {} THEN NoChannel ELSE channels[Min(hit)]

FindUser_Nobody(name) == NoUser

FindUser(name) ==
    LET hit == {i \in DOMAIN users : users[i].username = name}
    IN IF hit = {} THEN NoUser ELSE users[Min(hit)]

\* delete_many / delete_one: the documents that stay, in their order.
RECURSIVE Keep(_, _)
Keep(coll, ids) ==
    IF coll = <<>> THEN <<>>
    ELSE IF Head(coll).id \in ids
         THEN <<Head(coll)>> \o Keep(Tail(coll), ids)
         ELSE Keep(Tail(coll), ids)

Ids(coll) == {coll[i].id : i \in DOMAIN coll}

Docs(coll) == {coll[i] : i \in DOMAIN coll}

\* update_one({"_id": id}, {"$set": {"name": name}})
Rename(coll, id, name) ==
    [i \in DOMAIN coll |->
        IF coll[i].id = id THEN [coll[i] EXCEPT !.name = name] ELSE coll[i]]

ByName(a, b) == NameLess(a.name, b.name)

ByCreatedAt_Descending(a, b) == a.created_at > b.created_at

ByCreatedAt(a, b) == a.created_at < b.created_at

\* sort(key, 1): whether document a sorts before document b.
Before(key, a, b) ==
    IF key = "name" THEN ByName(a, b) ELSE ByCreatedAt(a, b)

\* The orders a cursor sorted on a key may return the documents in: every
\* arrangement in which no document precedes one that sorts before it.
\* Documents with equal keys come in any order.
Sorted(docs, key) ==
    {f \in [1..Cardinality(docs) -> docs] :
        /\ \A i, j \in DOMAIN f : i # j => f[i] # f[j]
        /\ \A i, j \in DOMAIN f : i < j => ~Before(key, f[j], f[i])}

\* find({"workspace_id": wid}).sort("name", 1), and the names it yields.
ChannelsOf(wid) == {c \in Docs(channels) : c.workspace_id = wid}

NamesOf(cursor) == [i \in DOMAIN cursor |-> cursor[i].name]

\* find({"workspace_id": wid, "channel_id": cid}).sort("created_at", 1)
MessagesOf(wid, cid) ==
    {m \in Docs(messages) : m.workspace_id = wid /\ m.channel_id = cid}

----------------------------------------------------------------------------
(* Task-local state.                                                       *)

\* The iterator of "for client in clients": the size the set had when the
\* loop began (size), the members yielded so far (visited), and the members
\* that were in the set when the loop began and still are (old).
NoIter == [active |-> FALSE, size |-> 0, visited |-> {}, old |-> {}]

NewIter == [active |-> TRUE, size |-> Cardinality(clients), visited |-> {},
            old |-> clients]

\* A response to the requester: its action, its status ("" when the envelope
\* carries none) and its payload.
NoResp == [action |-> "", status |-> "", message |-> <<>>]

Response(action, status, message) ==
    [action |-> action, status |-> status, message |-> message]

NoEnvelope == [action |-> ""]

InitLoc ==
    [fid        |-> 0,            \* the arrival number of the frame
     data       |-> NoFrame,
     workspace  |-> NoWorkspace,
     channel    |-> NoChannel,
     user_id    |-> 0,
     created_at |-> 0,
     stored     |-> 0,            \* the _id insert_one gave the message
     it         |-> NoIter,
     sent       |-> [r \in Sessions |-> 0],  \* sends of this fan-out
     error      |-> "",           \* the exception the handler logged
     failed     |-> {},           \* the recipients whose send raised
     dbfail     |-> FALSE,        \* a store call of this handling raised
     resp       |-> NoResp,       \* the response sent to the requester
     cursor     |-> <<>>,         \* the workspaces a cursor has yet to yield
     payload    |-> <<>>]         \* the notification being built

RECURSIVE SumFid(_)
SumFid(n) == IF n = 0 THEN 0 ELSE loc[n].fid + SumFid(n - 1)

FramesTaken == SumFid(MaxSessions)

----------------------------------------------------------------------------
Init ==
    /\ clients = {}
    /\ client_info = <<>>
    /\ workspaces = <<[id |-> 1, name |-> LabName]>>
    /\ channels = <<[id |-> 2, name |-> AllName, workspace_id |-> 1],
                    [id |-> 3, name |-> SocialName, workspace_id |-> 1]>>
    /\ messages = <<>>
    /\ users = <<>>
    /\ nextId = 4
    /\ clock = 0
    /\ pc = [s \in Sessions |-> "new"]
    /\ loc = [s \in Sessions |-> InitLoc]
    /\ inbox = [s \in Sessions |-> <<>>]
    /\ outbox = [s \in Sessions |-> NoEnvelope]
    /\ journal = [created |-> {}, deleted |-> {}]
    /\ dead = {}
    /\ faults = 0
    /\ hung = {}

----------------------------------------------------------------------------
(* handle_client: registration, the receive loop, removal.                 *)

\* A change of the registry is seen by every loop that is iterating it.
Touched(l, gone) ==
    IF l.it.active THEN [l EXCEPT !.it.old = @ \ gone] ELSE l

Connect(s) ==
    /\ pc[s] = "new"
    /\ \A t \in 1..(s - 1) : pc[t] # "new"
    /\ clients' = clients \cup {s}
    /\ client_info' = [t \in clients \cup {s} |->
                          IF t = s THEN [user_id |-> 0, workspace |-> None]
                          ELSE client_info[t]]
    /\ pc' = [pc EXCEPT ![s] = "recv"]
    /\ loc' = [t \in Sessions |-> Touched(loc[t], {})]
    /\ UNCHANGED <<store, aside, outbox>>

\* The receive loop ends when the connection is closed and the frames that
\* were received before have been handled.
Disconnect(s) ==
    /\ pc[s] = "recv"
    /\ inbox[s] = <<>>
    /\ clients' = clients \ {s}
    /\ client_info' = [t \in clients \ {s} |-> client_info[t]]
    /\ pc' = [pc EXCEPT ![s] = "closed"]
    /\ loc' = [t \in Sessions |->
                 IF t = s THEN [InitLoc EXCEPT !.fid = loc[s].fid]
                 ELSE Touched(loc[t], {s})]
    /\ outbox' = [outbox EXCEPT ![s] = NoEnvelope]
    /\ dead' = dead \ {s}
    /\ hung' = hung \ {s}
    /\ UNCHANGED <<store, clock, inbox, journal, faults>>

\* The fields a handler reads from the frame, as it normalises them.
sm_workspace(data) == Get(data, "workspace", Default)

sm_channel(data) == strip(Hash, Get(data, "channel", Default))

cw_name(data) == strip(Whitespace, Get(data, "workspace_name", <<>>))

cc_workspace(data) == strip(Whitespace, Get(data, "workspace", <<>>))

cc_channel(data) == strip(Whitespace, Get(data, "channel_name", <<>>))

dw_workspace(data) == strip(Whitespace, Get(data, "workspace", <<>>))

dc_workspace(data) == strip(Whitespace, Get(data, "workspace", <<>>))

dc_channel(data) == strip(Hash, strip(Whitespace, Get(data, "channel", <<>>)))

uw_old(data) == strip(Whitespace, Get(data, "old_name", <<>>))

uw_new(data) == strip(Whitespace, Get(data, "new_name", <<>>))

uc_workspace(data) == strip(Whitespace, Get(data, "workspace", <<>>))

uc_old(data) == strip(Whitespace, Get(data, "old_name", <<>>))

uc_new(data) == strip(Whitespace, Get(data, "new_name", <<>>))

se_query(data) == strip(Whitespace, Get(data, "query", <<>>))

se_workspace(data) == Get(data, "workspace", None)

se_channel(data) == Get(data, "channel", None)

se_sender(data) == Get(data, "sender", None)

cl_workspace(data) == Get(data, "workspace", Default)

cd_workspace(data) == Get(data, "workspace", Default)

cd_channel(data) == strip(Hash, Get(data, "channel", Default))

\* The workspace_name create_channel and delete_channel pass to
\* broadcast_channel_update.
cu_workspace(data) ==
    IF data.action = "delete_channel" THEN dc_workspace(data)
    ELSE cc_workspace(data)

\* "if not username" on what data.get("username") returned
Falsy(value) == value \in {None, Absent, <<>>}

ru_username(data) == Get(data, "username", None)

Server == <<"Server">>

hm_username(data) == Get(data, "sender", Unknown)

\* "if username != "Unknown" and username != "Server""
HasSender(data) == hm_username(data) \notin {Unknown, Server}

\* What json.loads raises on: a frame that is not JSON.
NotJson == "<not json>"

WellFormed(data) == data.action # NotJson

Rejected_Silent(action) == [pc |-> "recv", resp |-> NoResp]

Rejected(action) == [pc |-> "recv", resp |-> Response(action, "error", <<>>)]

Awaiting(label) == [pc |-> label, resp |-> NoResp]

\* The actions handle_message dispatches on.
Supported ==
    {"send_message", "register_user", "get_workspace_list",
     "get_channel_list", "get_channel_data", "create_workspace",
     "create_channel", "delete_workspace", "delete_channel",
     "update_workspace", "update_channel", "search"}

Begin_Reject(data) == Rejected("error")

\* handle_message's dispatch on the action field, and the handler's code up
\* to its first await: the first store call, or the error response to a
\* frame that lacks a required field.
Begin(data) ==
    CASE data.action = "send_message" -> Awaiting("sm_find_ws")
      [] data.action = "get_workspace_list" -> Awaiting("wl_ws")
      [] data.action = "get_channel_list" -> Awaiting("cl_find_ws")
      [] data.action = "get_channel_data" -> Awaiting("cd_find_ws")
      [] data.action = "register_user" ->
            IF Falsy(ru_username(data))
            THEN Awaiting("recv")
            ELSE Awaiting("ru_find")
      [] data.action = "create_workspace" ->
            IF cw_name(data) = <<>>
            THEN Rejected("create_workspace_response")
            ELSE Awaiting("cw_find")
      [] data.action = "create_channel" ->
            IF cc_channel(data) = <<>>
            THEN Rejected("create_channel_response")
            ELSE Awaiting("cc_find_ws")
      [] data.action = "delete_workspace" ->
            IF dw_workspace(data) = <<>>
            THEN Rejected("delete_workspace_response")
            ELSE Awaiting("dw_find")
      [] data.action = "delete_channel" ->
            IF dc_channel(data) = <<>> \/ dc_workspace(data) = <<>>
            THEN Rejected("delete_channel_response")
            ELSE Awaiting("dc_find_ws")
      [] data.action = "update_workspace" ->
            IF uw_old(data) = <<>> \/ uw_new(data) = <<>>
            THEN Rejected("update_workspace_response")
            ELSE Awaiting("uw_find")
      [] data.action = "update_channel" ->
            IF uc_workspace(data) = <<>> \/ uc_old(data) = <<>>
                   \/ uc_new(data) = <<>>
            THEN Rejected("update_channel_response")
            ELSE Awaiting("uc_find_ws")
      [] data.action = "search" ->
            IF se_query(data) = <<>>
            THEN Rejected("search_response")
            ELSE IF Falsy(se_workspace(data))
            THEN Awaiting("se_find_msgs")
            ELSE Awaiting("se_find_ws")
      [] OTHER -> Awaiting("recv")

Goto(s, l, label) ==
    /\ loc' = [loc EXCEPT ![s] = l]
    /\ pc' = [pc EXCEPT ![s] = label]

Reply(l, action, status, message) ==
    [l EXCEPT !.resp = Response(action, status, message)]

Catches_Nothing(clause, exc) == FALSE

\* "except <clause>" on a raised exc.  Every exception of the model
\* (ConnectionClosed, RuntimeError, TypeError, JSONDecodeError, a store
\* error) derives from Exception.
Catches(clause, exc) == clause = "Exception" \/ clause = exc

\* An exception leaves the handler: handle_message's except clauses log it
\* and the receive loop goes on.  One they do not catch reaches
\* handle_client, whose finally clause removes the connection.
Raised(s, l, exc) ==
    Goto(s, [l EXCEPT !.error = exc, !.it.active = FALSE],
         IF Catches("JSONDecodeError", exc) \/ Catches("Exception", exc)
         THEN "recv" ELSE "finally")

\* websocket.send(response), and the code that follows it up to the next
\* await.  On a closed connection the send raises ConnectionClosed; so does
\* the send of the error response in the handler's except clause, and the
\* exception leaves the handler.  To a peer that has stopped reading the
\* send does not complete.
Respond(s, l, action, status, message, label) ==
    IF s \in dead
    THEN Raised(s, l, "ConnectionClosed")
    ELSE IF s \in hung
    THEN Goto(s, l, "send")
    ELSE Goto(s, Reply(l, action, status, message), label)

\* The dispatch on the action field and the handler's code up to its first
\* await.
Dispatch(s, l) ==
    IF Begin(l.data).resp = NoResp
    THEN Goto(s, l, Begin(l.data).pc)
    ELSE Respond(s, l, Begin(l.data).resp.action, Begin(l.data).resp.status,
                 Begin(l.data).resp.message, Begin(l.data).pc)

\* handle_message is called with a frame: its code up to the first await.
\* json.loads raises on a frame that is not JSON; a frame with a sender is
\* first given its user.
Handle(s, data) ==
    LET l == [InitLoc EXCEPT !.fid = loc[s].fid + 1, !.data = data]
    IN IF ~WellFormed(data) THEN Raised(s, l, "JSONDecodeError")
       ELSE IF HasSender(data) THEN Goto(s, l, "hm_find_user")
       ELSE Dispatch(s, l)

\* client_info[websocket]["user_id"] = user_id
Bind(s, user_id) ==
    client_info' = [client_info EXCEPT ![s].user_id = user_id]

\* The user of the frame's sender is looked up before the dispatch.
hm_find_user(s) ==
    /\ pc[s] = "hm_find_user"
    /\ LET u == FindUser(hm_username(loc[s].data))
       IN IF u.id = 0
          THEN /\ Goto(s, loc[s], "hm_insert_user")
               /\ client_info' = client_info
          ELSE /\ Bind(s, u.id)
               /\ Dispatch(s, [loc[s] EXCEPT !.user_id = u.id])
    /\ UNCHANGED <<clients, store, aside, outbox>>

hm_insert_user(s) ==
    /\ pc[s] = "hm_insert_user"
    /\ users' = Append(users, [id |-> nextId,
                               username |-> hm_username(loc[s].data)])
    /\ nextId' = nextId + 1
    /\ Bind(s, nextId)
    /\ Dispatch(s, [loc[s] EXCEPT !.user_id = nextId])
    /\ UNCHANGED <<clients, workspaces, channels, messages, aside, outbox>>

PreDispatchStep(s) == hm_find_user(s) \/ hm_insert_user(s)

\* A frame arrives on an idle connection: the receive loop takes it at once.
Recv(s, data, bound) ==
    /\ pc[s] = "recv"
    /\ s \notin dead
    /\ inbox[s] = <<>>
    /\ FramesTaken < bound
    /\ Handle(s, data)
    /\ UNCHANGED <<registry, store, aside, outbox>>

\* No handler is in progress on any connection.
Quiet == \A t \in Sessions : pc[t] \in {"new", "recv", "closed"}

\* A frame arrives when every request before it has been handled.
RecvQuiet(s, data, bound) == Quiet /\ Recv(s, data, bound)

\* The connection is closed (by the peer, or lost).  Its task learns of it
\* when it is back in the receive loop.
PeerClose(s) ==
    /\ s \in clients \ dead
    /\ dead' = dead \cup {s}
    /\ UNCHANGED <<registry, store, pc, loc, inbox, outbox, journal, clock,
                   faults, hung>>

\* The peer of a connection stops reading: the connection stays open, its
\* write buffer fills, and a send to it does not complete.
Stall(r) ==
    /\ r \in clients \ (dead \cup hung)
    /\ hung' = hung \cup {r}
    /\ UNCHANGED <<registry, store, pc, loc, inbox, outbox, journal, clock,
                   dead, faults>>

\* datetime.now() moves on.
Tick(bound) ==
    /\ clock < bound
    /\ clock' = clock + 1
    /\ UNCHANGED <<registry, store, pc, loc, inbox, outbox, journal, dead,
                   faults, hung>>

----------------------------------------------------------------------------
(* store_message                                                           *)

\* After the user is known: message_data is built (channel["_id"] raises on
\* None, which store_message logs) and insert_one is awaited.
BuildMessage(s, l) ==
    IF l.channel.id = 0
    THEN /\ loc' = [loc EXCEPT ![s] = [l EXCEPT !.error = "TypeError"]]
         /\ pc' = [pc EXCEPT ![s] = "bc"]
         /\ clock' = clock
    ELSE /\ loc' = [loc EXCEPT ![s] = [l EXCEPT !.created_at = clock]]
         /\ pc' = [pc EXCEPT ![s] = "sm_insert"]
         /\ clock' = clock

sm_find_ws(s) ==
    /\ pc[s] = "sm_find_ws"
    /\ LET w == FindWorkspaceByName(sm_workspace(loc[s].data))
       IN /\ loc' = [loc EXCEPT ![s].workspace = w]
          /\ pc' = [pc EXCEPT ![s] =
                       IF w.id = 0 THEN "sm_find_any_ws" ELSE "sm_find_ch"]
    /\ UNCHANGED <<registry, store, aside, outbox>>

sm_find_any_ws(s) ==
    /\ pc[s] = "sm_find_any_ws"
    /\ LET w == FindAnyWorkspace
       IN IF w.id = 0
          THEN \* workspace["_id"] raises on None
               /\ loc' = [loc EXCEPT ![s].error = "TypeError"]
               /\ pc' = [pc EXCEPT ![s] = "bc"]
          ELSE /\ loc' = [loc EXCEPT ![s].workspace = w]
               /\ pc' = [pc EXCEPT ![s] = "sm_find_ch"]
    /\ UNCHANGED <<registry, store, aside, outbox>>

sm_find_ch(s) ==
    /\ pc[s] = "sm_find_ch"
    /\ LET c == FindChannel(sm_channel(loc[s].data), loc[s].workspace.id)
       IN /\ loc' = [loc EXCEPT ![s].channel = c]
          /\ pc' = [pc EXCEPT ![s] =
                       IF c.id = 0 THEN "sm_find_any_ch" ELSE "sm_find_user"]
    /\ UNCHANGED <<registry, store, aside, outbox>>

sm_find_any_ch(s) ==
    /\ pc[s] = "sm_find_any_ch"
    /\ loc' = [loc EXCEPT ![s].channel = FindAnyChannel(loc[s].workspace.id)]
    /\ pc' = [pc EXCEPT ![s] = "sm_find_user"]
    /\ UNCHANGED <<registry, store, aside, outbox>>

sm_find_user(s) ==
    /\ pc[s] = "sm_find_user"
    /\ LET u == FindUser(Get(loc[s].data, "sender", Unknown))
       IN IF u.id = 0
          THEN /\ pc' = [pc EXCEPT ![s] = "sm_insert_user"]
               /\ UNCHANGED <<loc, clock>>
          ELSE BuildMessage(s, [loc[s] EXCEPT !.user_id = u.id])
    /\ UNCHANGED <<registry, store, inbox, journal, dead, faults, hung,
                   outbox>>

sm_insert_user(s) ==
    /\ pc[s] = "sm_insert_user"
    /\ users' = Append(users, [id |-> nextId,
                               username |-> Get(loc[s].data, "sender", Unknown)])
    /\ nextId' = nextId + 1
    /\ BuildMessage(s, [loc[s] EXCEPT !.user_id = nextId])
    /\ UNCHANGED <<registry, workspaces, channels, messages, inbox, journal,
                   dead, faults, hung, outbox>>

sm_insert(s) ==
    /\ pc[s] = "sm_insert"
    /\ messages' = Append(messages,
           [id           |-> nextId,
            workspace_id |-> loc[s].workspace.id,
            channel_id   |-> loc[s].channel.id,
            user_id      |-> loc[s].user_id,
            sender       |-> Get(loc[s].data, "sender", Unknown),
            content      |-> Get(loc[s].data, "message", <<>>),
            created_at   |-> loc[s].created_at])
    /\ nextId' = nextId + 1
    /\ loc' = [loc EXCEPT ![s].stored = nextId]
    /\ pc' = [pc EXCEPT ![s] = "bc"]
    /\ UNCHANGED <<registry, workspaces, channels, users, aside, outbox>>

----------------------------------------------------------------------------
(* broadcast                                                               *)

\* The envelope of a send_message frame: the raw text of frame fid of
\* connection origin.
ChatEnvelope(s) == [action |-> "send_message", origin |-> s, fid |-> loc[s].fid]

IsRecipient_Everyone(client, sender) == TRUE

\* "if client != sender"
IsRecipient(client, sender) == client # sender

\* What "for client in clients" may yield next, and what it has yet to
\* yield.  The iterator scans the hash table upwards from its position:
\* a member that was there when the loop began is yielded once, in no
\* particular order; a member added since is yielded if it landed above
\* the position and passed over otherwise.  (A table that is never resized:
\* a set of websockets is resized on its fifth entry.)
SetIterMay(it) == clients \ it.visited

SetIterMust(it) == it.old \ it.visited

\* The loop's iterator: created by the first resumption of the loop.
Iterating(l) == IF l.it.active THEN l ELSE [l EXCEPT !.it = NewIter]

\* The loop has ended (its error, if any, logged) and the handler returns.
EndLoop(s, l, error) ==
    /\ Goto(s, [l EXCEPT !.it.active = FALSE, !.error = error], "recv")
    /\ outbox' = outbox

\* client.send(envelope) in a loop over the registry.  On a closed
\* connection it raises ConnectionClosed, which the except clause around
\* the send logs, and the loop goes on.  On a connection whose peer has
\* stopped reading the await does not return: the task stays in the send.
SendTo(s, l, r, envelope) ==
    IF r \in hung \ dead
    THEN /\ outbox' = outbox
         /\ loc' = [loc EXCEPT ![s] = [l EXCEPT !.it.visited = @ \cup {r}]]
         /\ pc' = [pc EXCEPT ![s] = "send"]
    ELSE IF r \notin dead
    THEN /\ outbox' = [outbox EXCEPT ![r] = envelope]
         /\ loc' = [loc EXCEPT ![s] =
                       [l EXCEPT !.it.visited = @ \cup {r}, !.sent[r] = @ + 1]]
         /\ pc' = pc
    ELSE IF Catches("Exception", "ConnectionClosed")
    THEN /\ outbox' = outbox
         /\ loc' = [loc EXCEPT ![s] =
                       [l EXCEPT !.it.visited = @ \cup {r},
                                 !.failed = @ \cup {r}]]
         /\ pc' = pc
    ELSE EndLoop(s, [l EXCEPT !.failed = @ \cup {r}], "ConnectionClosed")

\* One resumption of a loop over the set clients that sends to the members
\* in wanted: the loop runs on to its next send, or ends.  A set whose size
\* changed while the loop was suspended raises RuntimeError, which is logged
\* (by handle_message for broadcast, by broadcast_workspace_update itself).
SetFanOut(s, wanted, envelope) ==
    LET l == Iterating(loc[s])
    IN IF Cardinality(clients) # l.it.size
       THEN EndLoop(s, l, "RuntimeError")
       ELSE \/ /\ SetIterMust(l.it) \cap wanted = {}
               /\ EndLoop(s, l, l.error)
            \/ \E r \in SetIterMay(l.it) \cap wanted :
                   SendTo(s, l, r, envelope)

bc(s) ==
    /\ pc[s] = "bc"
    /\ SetFanOut(s, {r \in Sessions : IsRecipient(r, s)}, ChatEnvelope(s))
    /\ UNCHANGED <<registry, store, aside>>

----------------------------------------------------------------------------
(* broadcast_workspace_update                                              *)

\* workspaces[name] = value on the dict being built.
DictSet(d, key, value) ==
    IF \E i \in DOMAIN d : d[i].key = key
    THEN [i \in DOMAIN d |->
             IF d[i].key = key THEN [d[i] EXCEPT !.value = value] ELSE d[i]]
    ELSE Append(d, [key |-> key, value |-> value])

\* The cursor over all workspaces, sorted by name, is read.
wu_ws(s) ==
    /\ pc[s] = "wu_ws"
    /\ \E cursor \in Sorted(Docs(workspaces), "name") :
           Goto(s, [loc[s] EXCEPT !.cursor = cursor, !.payload = <<>>],
                IF cursor = <<>> THEN "wu_bc" ELSE "wu_ch")
    /\ UNCHANGED <<registry, store, aside, outbox>>

\* The channels of the next workspace of the cursor are read.
wu_ch(s) ==
    /\ pc[s] = "wu_ch"
    /\ LET w == Head(loc[s].cursor)
           rest == Tail(loc[s].cursor)
       IN \E chs \in Sorted(ChannelsOf(w.id), "name") :
              Goto(s, [loc[s] EXCEPT
                          !.cursor = rest,
                          !.payload = DictSet(@, w.name, NamesOf(chs))],
                   IF rest = <<>> THEN "wu_bc" ELSE "wu_ch")
    /\ UNCHANGED <<registry, store, aside, outbox>>

WorkspaceUpdate(s) ==
    [action |-> "workspace_update", message |-> loc[s].payload]

wu_bc(s) ==
    /\ pc[s] = "wu_bc"
    /\ SetFanOut(s, Sessions, WorkspaceUpdate(s))
    /\ UNCHANGED <<registry, store, aside>>

BroadcastWorkspaceUpdateStep(s) == wu_ws(s) \/ wu_ch(s) \/ wu_bc(s)

----------------------------------------------------------------------------
(* broadcast_channel_update                                                *)

cu_ws(s) ==
    /\ pc[s] = "cu_ws"
    /\ LET w == FindWorkspaceByName(cu_workspace(loc[s].data))
       IN IF w.id # 0
          THEN Goto(s, [loc[s] EXCEPT !.workspace = w], "cu_ch")
          ELSE Goto(s, [loc[s] EXCEPT !.payload = <<>>], "cu_bc")
    /\ UNCHANGED <<registry, store, aside, outbox>>

cu_ch(s) ==
    /\ pc[s] = "cu_ch"
    /\ \E chs \in Sorted(ChannelsOf(loc[s].workspace.id), "name") :
           Goto(s, [loc[s] EXCEPT !.payload = NamesOf(chs)], "cu_bc")
    /\ UNCHANGED <<registry, store, aside, outbox>>

IsSubscribed_Everyone(info, workspace_name) == TRUE

\* "if info.get("workspace") == workspace_name"
IsSubscribed(info, workspace_name) == info.workspace = workspace_name

\* The notification as handed to connection r; sub records the workspace r
\* was subscribed to at that moment.
ChannelUpdate(s, r) ==
    [action    |-> "channel_update",
     workspace |-> cu_workspace(loc[s].data),
     message   |-> loc[s].payload,
     sub       |-> client_info[r].workspace]

\* "for client, info in client_info.items()" from one send to the next.  A
\* dict yields its keys in insertion order, which is the order in which the
\* connections registered; it passes over the entries that are not
\* subscribed without suspending.  Having yielded as many keys as the dict
\* had when the loop began, it raises RuntimeError if it finds another.
RECURSIVE DictScan(_, _, _)
DictScan(visited, size, workspace_name) ==
    LET ahead == {r \in clients : \A v \in visited : r > v}
        r == Min(ahead)
    IN IF ahead = {} THEN [kind |-> "stop", visited |-> visited]
       ELSE IF Cardinality(visited) >= size
       THEN [kind |-> "error", visited |-> visited]
       ELSE IF IsSubscribed(client_info[r], workspace_name)
       THEN [kind |-> "send", visited |-> visited \cup {r}, to |-> r]
       ELSE DictScan(visited \cup {r}, size, workspace_name)

\* One resumption of the loop.  RuntimeError (the dict changed size, or its
\* keys changed) is logged by broadcast_channel_update.
cu_bc(s) ==
    /\ pc[s] = "cu_bc"
    /\ LET l == Iterating(loc[s])
           next == DictScan(l.it.visited, l.it.size, cu_workspace(l.data))
       IN IF Cardinality(clients) # l.it.size \/ next.kind = "error"
          THEN EndLoop(s, l, "RuntimeError")
          ELSE IF next.kind = "stop"
          THEN EndLoop(s, l, l.error)
          ELSE SendTo(s, [l EXCEPT !.it.visited = next.visited], next.to,
                      ChannelUpdate(s, next.to))
    /\ UNCHANGED <<registry, store, aside>>

BroadcastChannelUpdateStep(s) == cu_ws(s) \/ cu_ch(s) \/ cu_bc(s)

----------------------------------------------------------------------------
(* register_user                                                           *)

\* The user is bound to the connection, then the response is sent.
ru_find(s) ==
    /\ pc[s] = "ru_find"
    /\ LET u == FindUser(ru_username(loc[s].data))
       IN IF u.id = 0
          THEN /\ Goto(s, loc[s], "ru_insert")
               /\ client_info' = client_info
          ELSE /\ Bind(s, u.id)
               /\ Respond(s, [loc[s] EXCEPT !.user_id = u.id],
                          "register_user_response", "success",
                          ru_username(loc[s].data), "recv")
    /\ UNCHANGED <<clients, store, aside, outbox>>

ru_insert(s) ==
    /\ pc[s] = "ru_insert"
    /\ users' = Append(users, [id |-> nextId,
                               username |-> ru_username(loc[s].data)])
    /\ nextId' = nextId + 1
    /\ Bind(s, nextId)
    /\ Respond(s, [loc[s] EXCEPT !.user_id = nextId],
               "register_user_response", "success",
               ru_username(loc[s].data), "recv")
    /\ UNCHANGED <<clients, workspaces, channels, messages, aside, outbox>>

RegisterUserStep(s) == ru_find(s) \/ ru_insert(s)

----------------------------------------------------------------------------
(* create_workspace                                                        *)

Existing_Never(doc) == FALSE

\* "if existing:" on the result of find_one
Existing(doc) == doc.id # 0

\* find_one returns: a workspace of that name is answered with an error, and
\* the workspace update is broadcast all the same.
cw_find(s) ==
    /\ pc[s] = "cw_find"
    /\ IF Existing(FindWorkspaceByName(cw_name(loc[s].data)))
       THEN Respond(s, loc[s], "create_workspace_response", "error",
                          cw_name(loc[s].data),
                 "wu_ws")
       ELSE Goto(s, loc[s], "cw_insert_ws")
    /\ UNCHANGED <<registry, store, aside, outbox>>

cw_insert_ws(s) ==
    /\ pc[s] = "cw_insert_ws"
    /\ LET w == [id |-> nextId, name |-> cw_name(loc[s].data)]
       IN /\ workspaces' = Append(workspaces, w)
          /\ Goto(s, [loc[s] EXCEPT !.workspace = w], "cw_insert_chs")
    /\ nextId' = nextId + 1
    /\ UNCHANGED <<registry, channels, messages, users, aside, outbox>>

\* insert_many(default_channels)
cw_insert_chs(s) ==
    /\ pc[s] = "cw_insert_chs"
    /\ channels' = channels \o
           <<[id |-> nextId, name |-> AllName,
              workspace_id |-> loc[s].workspace.id],
             [id |-> nextId + 1, name |-> SocialName,
              workspace_id |-> loc[s].workspace.id]>>
    /\ nextId' = nextId + 2
    /\ Respond(s, loc[s], "create_workspace_response", "success",
                     cw_name(loc[s].data),
            "wu_ws")
    /\ UNCHANGED <<registry, workspaces, messages, users, aside, outbox>>

CreateWorkspaceStep(s) == cw_find(s) \/ cw_insert_ws(s) \/ cw_insert_chs(s)

----------------------------------------------------------------------------
(* create_channel                                                          *)

\* The workspace and channel a request names, as the frame gives them.
Named(data, key) ==
    [workspace |-> Get(data, "workspace", <<>>),
     channel   |-> Get(data, key, <<>>)]

cc_find_ws(s) ==
    /\ pc[s] = "cc_find_ws"
    /\ LET w == FindWorkspaceByName(cc_workspace(loc[s].data))
       IN IF w.id = 0
          THEN Respond(s, loc[s], "create_channel_response", "error",
                             cc_workspace(loc[s].data),
                    "recv")
          ELSE Goto(s, [loc[s] EXCEPT !.workspace = w], "cc_find_ch")
    /\ UNCHANGED <<registry, store, aside, outbox>>

cc_find_ch(s) ==
    /\ pc[s] = "cc_find_ch"
    /\ IF Existing(FindChannel(cc_channel(loc[s].data), loc[s].workspace.id))
       THEN Respond(s, loc[s], "create_channel_response", "error",
                          cc_channel(loc[s].data),
                 "cu_ws")
       ELSE Goto(s, loc[s], "cc_insert")
    /\ UNCHANGED <<registry, store, aside, outbox>>

cc_insert(s) ==
    /\ pc[s] = "cc_insert"
    /\ channels' = Append(channels,
           [id |-> nextId, name |-> cc_channel(loc[s].data),
            workspace_id |-> loc[s].workspace.id])
    /\ nextId' = nextId + 1
    /\ Respond(s, loc[s], "create_channel_response", "success",
                     cc_channel(loc[s].data),
            "cu_ws")
    /\ journal' = [created |-> journal.created
                                  \cup {Named(loc[s].data, "channel_name")},
                   deleted |-> journal.deleted
                                  \ {Named(loc[s].data, "channel_name")}]
    /\ UNCHANGED <<registry, workspaces, messages, users, clock, inbox, dead,
                   faults, hung, outbox>>

CreateChannelStep(s) == cc_find_ws(s) \/ cc_find_ch(s) \/ cc_insert(s)

----------------------------------------------------------------------------
(* delete_workspace                                                        *)

\* delete_many(filter) / delete_one(filter), given the _ids that match.
Delete(coll, matching) == Keep(coll, Ids(coll) \ matching)

dw_find(s) ==
    /\ pc[s] = "dw_find"
    /\ LET w == FindWorkspaceByName(dw_workspace(loc[s].data))
       IN IF w.id = 0
          THEN Respond(s, loc[s], "delete_workspace_response", "error",
                             dw_workspace(loc[s].data),
                    "recv")
          ELSE Goto(s, [loc[s] EXCEPT !.workspace = w], "dw_del_chs")
    /\ UNCHANGED <<registry, store, aside, outbox>>

dw_del_chs(s) ==
    /\ pc[s] = "dw_del_chs"
    /\ channels' = Delete(channels,
                          {c.id : c \in ChannelsOf(loc[s].workspace.id)})
    /\ Goto(s, loc[s], "dw_del_msgs")
    /\ UNCHANGED <<registry, workspaces, messages, users, nextId, aside,
                   outbox>>

dw_del_msgs(s) ==
    /\ pc[s] = "dw_del_msgs"
    /\ messages' = Delete(messages,
           {m.id : m \in {x \in Docs(messages) :
                             x.workspace_id = loc[s].workspace.id}})
    /\ Goto(s, loc[s], "dw_del_ws")
    /\ UNCHANGED <<registry, workspaces, channels, users, nextId, aside,
                   outbox>>

dw_del_ws(s) ==
    /\ pc[s] = "dw_del_ws"
    /\ workspaces' = Delete(workspaces, {loc[s].workspace.id})
    /\ Respond(s, loc[s], "delete_workspace_response", "success",
                     dw_workspace(loc[s].data),
            "wu_ws")
    /\ UNCHANGED <<registry, channels, messages, users, nextId, aside, outbox>>

DeleteWorkspaceStep(s) ==
    dw_find(s) \/ dw_del_chs(s) \/ dw_del_msgs(s) \/ dw_del_ws(s)

----------------------------------------------------------------------------
(* delete_channel                                                          *)

dc_find_ws(s) ==
    /\ pc[s] = "dc_find_ws"
    /\ LET w == FindWorkspaceByName(dc_workspace(loc[s].data))
       IN IF w.id = 0
          THEN Respond(s, loc[s], "delete_channel_response", "error",
                             dc_workspace(loc[s].data),
                    "recv")
          ELSE Goto(s, [loc[s] EXCEPT !.workspace = w], "dc_find_ch")
    /\ UNCHANGED <<registry, store, aside, outbox>>

dc_find_ch(s) ==
    /\ pc[s] = "dc_find_ch"
    /\ LET c == FindChannel(dc_channel(loc[s].data), loc[s].workspace.id)
       IN IF c.id = 0
          THEN Respond(s, loc[s], "delete_channel_response", "error",
                             dc_channel(loc[s].data),
                    "recv")
          ELSE Goto(s, [loc[s] EXCEPT !.channel = c], "dc_del_msgs")
    /\ UNCHANGED <<registry, store, aside, outbox>>

dc_del_msgs_All(s) ==
    /\ pc[s] = "dc_del_msgs"
    /\ messages' = <<>>
    /\ Goto(s, loc[s], "dc_del_ch")
    /\ UNCHANGED <<registry, workspaces, channels, users, nextId, aside,
                   outbox>>

dc_del_msgs(s) ==
    /\ pc[s] = "dc_del_msgs"
    /\ messages' = Delete(messages,
           {m.id : m \in {x \in Docs(messages) :
                             x.channel_id = loc[s].channel.id}})
    /\ Goto(s, loc[s], "dc_del_ch")
    /\ UNCHANGED <<registry, workspaces, channels, users, nextId, aside,
                   outbox>>

\* The history records a successful delete_channel of a channel that a
\* create_channel naming it the same way had created.
dc_del_ch(s) ==
    /\ pc[s] = "dc_del_ch"
    /\ channels' = Delete(channels, {loc[s].channel.id})
    /\ Respond(s, loc[s], "delete_channel_response", "success",
                     dc_channel(loc[s].data),
            "cu_ws")
    /\ journal' = IF Named(loc[s].data, "channel") \in journal.created
                  THEN [created |-> journal.created
                                       \ {Named(loc[s].data, "channel")},
                        deleted |-> journal.deleted
                                       \cup {Named(loc[s].data, "channel")}]
                  ELSE journal
    /\ UNCHANGED <<registry, workspaces, messages, users, nextId, clock, inbox,
                   dead, faults, hung, outbox>>

DeleteChannelStep(s) ==
    dc_find_ws(s) \/ dc_find_ch(s) \/ dc_del_msgs(s) \/ dc_del_ch(s)

----------------------------------------------------------------------------
(* update_workspace                                                        *)

uw_find(s) ==
    /\ pc[s] = "uw_find"
    /\ LET w == FindWorkspaceByName(uw_old(loc[s].data))
       IN IF w.id = 0
          THEN Respond(s, loc[s], "update_workspace_response", "error",
                             uw_old(loc[s].data),
                    "recv")
          ELSE Goto(s, [loc[s] EXCEPT !.workspace = w],
                    IF uw_old(loc[s].data) # uw_new(loc[s].data)
                    THEN "uw_find_new" ELSE "uw_update")
    /\ UNCHANGED <<registry, store, aside, outbox>>

uw_find_new(s) ==
    /\ pc[s] = "uw_find_new"
    /\ IF Existing(FindWorkspaceByName(uw_new(loc[s].data)))
       THEN Respond(s, loc[s], "update_workspace_response", "error",
                          uw_new(loc[s].data),
                 "recv")
       ELSE Goto(s, loc[s], "uw_update")
    /\ UNCHANGED <<registry, store, aside, outbox>>

uw_update(s) ==
    /\ pc[s] = "uw_update"
    /\ workspaces' = Rename(workspaces, loc[s].workspace.id,
                            uw_new(loc[s].data))
    /\ Respond(s, loc[s], "update_workspace_response", "success",
                     uw_new(loc[s].data),
            "wu_ws")
    /\ UNCHANGED <<registry, channels, messages, users, nextId, aside, outbox>>

UpdateWorkspaceStep(s) == uw_find(s) \/ uw_find_new(s) \/ uw_update(s)

----------------------------------------------------------------------------
(* update_channel                                                          *)

uc_find_ws(s) ==
    /\ pc[s] = "uc_find_ws"
    /\ LET w == FindWorkspaceByName(uc_workspace(loc[s].data))
       IN IF w.id = 0
          THEN Respond(s, loc[s], "update_channel_response", "error",
                       uc_workspace(loc[s].data), "recv")
          ELSE Goto(s, [loc[s] EXCEPT !.workspace = w], "uc_find_ch")
    /\ UNCHANGED <<registry, store, aside, outbox>>

uc_find_ch(s) ==
    /\ pc[s] = "uc_find_ch"
    /\ LET c == FindChannel(uc_old(loc[s].data), loc[s].workspace.id)
       IN IF c.id = 0
          THEN Respond(s, loc[s], "update_channel_response", "error",
                       uc_old(loc[s].data), "recv")
          ELSE Goto(s, [loc[s] EXCEPT !.channel = c],
                    IF uc_old(loc[s].data) # uc_new(loc[s].data)
                    THEN "uc_find_new" ELSE "uc_update")
    /\ UNCHANGED <<registry, store, aside, outbox>>

uc_find_new(s) ==
    /\ pc[s] = "uc_find_new"
    /\ IF Existing(FindChannel(uc_new(loc[s].data), loc[s].workspace.id))
       THEN Respond(s, loc[s], "update_channel_response", "error",
                    uc_new(loc[s].data), "recv")
       ELSE Goto(s, loc[s], "uc_update")
    /\ UNCHANGED <<registry, store, aside, outbox>>

\* update_one by _id sets the name; the response is sent and
\* broadcast_channel_update(workspace_name) follows.
uc_update(s) ==
    /\ pc[s] = "uc_update"
    /\ channels' = Rename(channels, loc[s].channel.id, uc_new(loc[s].data))
    /\ Respond(s, loc[s], "update_channel_response", "success",
               uc_new(loc[s].data), "cu_ws")
    /\ UNCHANGED <<registry, workspaces, messages, users, nextId, aside,
                   outbox>>

UpdateChannelStep(s) ==
    uc_find_ws(s) \/ uc_find_ch(s) \/ uc_find_new(s) \/ uc_update(s)

----------------------------------------------------------------------------
(* send_channel_list                                                       *)

\* The channel_list response is sent (with no channels for a workspace that
\* is not found); the subscription is written when the send has returned.
\* send_workspace_list: the cursor over the workspaces, sorted by name, is
\* read.  payload is the dict the response will carry.
wl_ws(s) ==
    /\ pc[s] = "wl_ws"
    /\ \E cursor \in Sorted(Docs(workspaces), "name") :
           IF cursor = <<>>
           THEN Respond(s, [loc[s] EXCEPT !.payload = <<>>],
                        "workspace_list", "", <<>>, "recv")
           ELSE Goto(s, [loc[s] EXCEPT !.cursor = cursor, !.payload = <<>>],
                     "wl_ch")
    /\ UNCHANGED <<registry, store, aside, outbox>>

\* The channels of the next workspace of the cursor are read; after the
\* last, the response is sent.
wl_ch(s) ==
    /\ pc[s] = "wl_ch"
    /\ LET w == Head(loc[s].cursor)
           rest == Tail(loc[s].cursor)
       IN \E chs \in Sorted(ChannelsOf(w.id), "name") :
              LET l == [loc[s] EXCEPT
                           !.cursor = rest,
                           !.payload = DictSet(@, w.name, NamesOf(chs))]
              IN IF rest = <<>>
                 THEN Respond(s, l, "workspace_list", "", l.payload, "recv")
                 ELSE Goto(s, l, "wl_ch")
    /\ UNCHANGED <<registry, store, aside, outbox>>

SendWorkspaceListStep(s) == wl_ws(s) \/ wl_ch(s)

cl_find_ws(s) ==
    /\ pc[s] = "cl_find_ws"
    /\ LET w == FindWorkspaceByName(cl_workspace(loc[s].data))
       IN IF w.id = 0
          THEN Respond(s, loc[s], "channel_list", "", <<>>, "cl_set")
          ELSE Goto(s, [loc[s] EXCEPT !.workspace = w], "cl_find_chs")
    /\ UNCHANGED <<registry, store, aside, outbox>>

cl_find_chs(s) ==
    /\ pc[s] = "cl_find_chs"
    /\ \E chs \in Sorted(ChannelsOf(loc[s].workspace.id), "name") :
           Respond(s, loc[s], "channel_list", "", NamesOf(chs), "cl_set")
    /\ UNCHANGED <<registry, store, aside, outbox>>

cl_set_Skip(s) ==
    /\ pc[s] = "cl_set"
    /\ Goto(s, loc[s], "recv")
    /\ UNCHANGED <<registry, store, aside, outbox>>

cl_set_All(s) ==
    /\ pc[s] = "cl_set"
    /\ client_info' = [t \in DOMAIN client_info |->
                          [client_info[t] EXCEPT
                              !.workspace = cl_workspace(loc[s].data)]]
    /\ Goto(s, loc[s], "recv")
    /\ UNCHANGED <<clients, store, aside, outbox>>

\* client_info[websocket]["workspace"] = workspace_name
cl_set(s) ==
    /\ pc[s] = "cl_set"
    /\ client_info' = [client_info EXCEPT
                          ![s].workspace = cl_workspace(loc[s].data)]
    /\ Goto(s, loc[s], "recv")
    /\ UNCHANGED <<clients, store, aside, outbox>>

SendChannelListStep(s) == cl_find_ws(s) \/ cl_find_chs(s) \/ cl_set(s)

----------------------------------------------------------------------------
(* send_channel_data                                                       *)

cd_find_ws(s) ==
    /\ pc[s] = "cd_find_ws"
    /\ LET w == FindWorkspaceByName(cd_workspace(loc[s].data))
       IN IF w.id = 0
          THEN Respond(s, loc[s], "channel_data", "error",
                             cd_workspace(loc[s].data),
                    "recv")
          ELSE Goto(s, [loc[s] EXCEPT !.workspace = w], "cd_find_ch")
    /\ UNCHANGED <<registry, store, aside, outbox>>

cd_find_ch(s) ==
    /\ pc[s] = "cd_find_ch"
    /\ LET c == FindChannel(cd_channel(loc[s].data), loc[s].workspace.id)
       IN IF c.id = 0
          THEN Respond(s, loc[s], "channel_data", "error",
                             cd_channel(loc[s].data),
                    "recv")
          ELSE Goto(s, [loc[s] EXCEPT !.channel = c], "cd_find_msgs")
    /\ UNCHANGED <<registry, store, aside, outbox>>

\* What the response carries of each message the cursor yields.
Entries(cursor) ==
    [i \in DOMAIN cursor |->
        [sender |-> cursor[i].sender, message |-> cursor[i].content]]

\* The cursor over the channel's messages, sorted by created_at, is read and
\* the response is sent.  cursor keeps the documents it yielded.
cd_find_msgs(s) ==
    /\ pc[s] = "cd_find_msgs"
    /\ \E msgs \in Sorted(MessagesOf(loc[s].workspace.id, loc[s].channel.id),
                          "created_at") :
           Respond(s, [loc[s] EXCEPT !.cursor = msgs],
                         "channel_data", "", Entries(msgs),
                "recv")
    /\ UNCHANGED <<registry, store, aside, outbox>>

SendChannelDataStep(s) == cd_find_ws(s) \/ cd_find_ch(s) \/ cd_find_msgs(s)

----------------------------------------------------------------------------
(* search_messages                                                         *)

\* {"$regex": pattern, "$options": "i"}: the pattern occurs in the text.
\* (The names of the model stand for lower-case runs of characters that
\* hold no regular-expression operator.)
Contains(text, pattern) ==
    \E i \in 0..(Len(text) - Len(pattern)) :
        SubSeq(text, i + 1, i + Len(pattern)) = pattern

\* The workspace filter: the first find_one by name sets
\* search_filter["workspace_id"] when it finds a workspace, and only then.
se_find_ws(s) ==
    /\ pc[s] = "se_find_ws"
    /\ Goto(s, [loc[s] EXCEPT
                   !.workspace = FindWorkspaceByName(se_workspace(loc[s].data))],
            IF Falsy(se_channel(loc[s].data))
            THEN "se_find_msgs" ELSE "se_find_ws_again")
    /\ UNCHANGED <<registry, store, aside, outbox>>

\* The channel filter looks the workspace up a second time.
se_find_ws_again(s) ==
    /\ pc[s] = "se_find_ws_again"
    /\ LET w == FindWorkspaceByName(se_workspace(loc[s].data))
       IN Goto(s, [loc[s] EXCEPT !.cursor = <<w>>],
               IF w.id = 0 THEN "se_find_msgs" ELSE "se_find_ch")
    /\ UNCHANGED <<registry, store, aside, outbox>>

\* search_filter["channel_id"] is set when the channel is found in it.
se_find_ch(s) ==
    /\ pc[s] = "se_find_ch"
    /\ Goto(s, [loc[s] EXCEPT
                   !.channel = FindChannel(se_channel(loc[s].data),
                                           loc[s].cursor[1].id)],
            "se_find_msgs")
    /\ UNCHANGED <<registry, store, aside, outbox>>

\* find(search_filter): the content matches the query, and each filter that
\* was set holds.
SearchFilter(l) ==
    {m \in Docs(messages) :
        /\ Contains(m.content, se_query(l.data))
        /\ l.workspace.id # 0 => m.workspace_id = l.workspace.id
        /\ l.channel.id # 0 => m.channel_id = l.channel.id
        /\ ~Falsy(se_sender(l.data)) => Contains(m.sender, se_sender(l.data))}

\* sort("created_at", -1): the orders in which no document precedes a newer
\* one.  (limit(100) is beyond the bounds of the model.)
NewestFirst(docs) ==
    {f \in [1..Cardinality(docs) -> docs] :
        /\ \A i, j \in DOMAIN f : i # j => f[i] # f[j]
        /\ \A i, j \in DOMAIN f :
               i < j => ~ByCreatedAt_Descending(f[j], f[i])}

SearchResponse(s, l) ==
    Respond(s, l, "search_response", "success", l.payload, "recv")

\* The cursor is read; with no document the response is sent.
se_find_msgs(s) ==
    /\ pc[s] = "se_find_msgs"
    /\ \E msgs \in NewestFirst(SearchFilter(loc[s])) :
           LET l == [loc[s] EXCEPT !.cursor = msgs, !.payload = <<>>]
           IN IF msgs = <<>> THEN SearchResponse(s, l)
              ELSE Goto(s, l, "se_ws")
    /\ UNCHANGED <<registry, store, aside, outbox>>

\* The workspace of the next message is looked up by _id.
se_ws(s) ==
    /\ pc[s] = "se_ws"
    /\ LET hit == {w \in Docs(workspaces) :
                      w.id = Head(loc[s].cursor).workspace_id}
       IN Goto(s, [loc[s] EXCEPT !.workspace =
                      IF hit = {} THEN NoWorkspace ELSE CHOOSE w \in hit : TRUE],
               "se_ch")
    /\ UNCHANGED <<registry, store, aside, outbox>>

\* Its channel is looked up by _id and the result is appended: the names
\* found ("Unknown" for one that is gone), and of the message its sender and
\* content; id, workspace_id and channel_id record which document it is.
se_ch(s) ==
    /\ pc[s] = "se_ch"
    /\ LET msg == Head(loc[s].cursor)
           rest == Tail(loc[s].cursor)
           hit == {c \in Docs(channels) : c.id = msg.channel_id}
           l == [loc[s] EXCEPT
                    !.cursor = rest,
                    !.payload = Append(@,
                        [id           |-> msg.id,
                         workspace_id |-> msg.workspace_id,
                         channel_id   |-> msg.channel_id,
                         sender       |-> msg.sender,
                         message      |-> msg.content,
                         workspace    |-> IF loc[s].workspace.id = 0
                                          THEN Unknown
                                          ELSE loc[s].workspace.name,
                         channel      |-> IF hit = {} THEN Unknown
                                          ELSE (CHOOSE c \in hit : TRUE).name])]
       IN IF rest = <<>> THEN SearchResponse(s, l) ELSE Goto(s, l, "se_ws")
    /\ UNCHANGED <<registry, store, aside, outbox>>

SearchMessagesStep(s) ==
    \/ se_find_ws(s)
    \/ se_find_ws_again(s)
    \/ se_find_ch(s)
    \/ se_find_msgs(s)
    \/ se_ws(s)
    \/ se_ch(s)

----------------------------------------------------------------------------
(* Store calls that raise.                                                 *)

\* The action field of the error response a handler's except clause sends.
ErrorAction(action) ==
    CASE action = "get_workspace_list" -> "workspace_list"
      [] action = "get_channel_list" -> "channel_list"
      [] action = "get_channel_data" -> "channel_data"
      [] action = "register_user" -> "register_user_response"
      [] action = "create_workspace" -> "create_workspace_response"
      [] action = "create_channel" -> "create_channel_response"
      [] action = "delete_workspace" -> "delete_workspace_response"
      [] action = "delete_channel" -> "delete_channel_response"
      [] action = "update_workspace" -> "update_workspace_response"
      [] action = "update_channel" -> "update_channel_response"
      [] action = "search" -> "search_response"
      [] OTHER -> ""

\* The store call a task is awaiting raises (the labels are those at which
\* a task awaits a store call).  Before the dispatch the
\* exception leaves through handle_message; store_message logs it and
\* returns, and the broadcast follows; the notification builders log it and
\* return; a handler's except clause sends the requester an error response.
DbFail(s, bound) ==
    /\ faults < bound
    /\ faults' = faults + 1
    /\ LET l == [loc[s] EXCEPT !.dbfail = TRUE, !.error = "StoreError"]
           PreDispatch == {"hm_find_user", "hm_insert_user"}
           InStoreMessage ==
               {"sm_find_ws", "sm_find_any_ws", "sm_find_ch", "sm_find_any_ch",
                "sm_find_user", "sm_insert_user", "sm_insert"}
           InNotification == {"wu_ws", "wu_ch", "cu_ws", "cu_ch"}
           InHandler ==
               {"ru_find", "ru_insert", "cw_find", "cw_insert_ws",
                "cw_insert_chs", "cc_find_ws", "cc_find_ch", "cc_insert",
                "dw_find", "dw_del_chs", "dw_del_msgs", "dw_del_ws",
                "dc_find_ws", "dc_find_ch", "dc_del_msgs", "dc_del_ch",
                "uw_find", "uw_find_new", "uw_update", "uc_find_ws",
                "uc_find_ch", "uc_find_new", "uc_update", "se_find_ws",
                "se_find_ws_again", "se_find_ch", "se_find_msgs", "se_ws",
                "se_ch", "wl_ws", "wl_ch", "cl_find_ws",
                "cl_find_chs", "cd_find_ws", "cd_find_ch", "cd_find_msgs"}
       IN CASE pc[s] \in PreDispatch -> Raised(s, l, "StoreError")
            [] pc[s] \in InStoreMessage ->
                   IF Catches("Exception", "StoreError")
                   THEN Goto(s, l, "bc")
                   ELSE Raised(s, l, "StoreError")
            [] pc[s] \in InNotification ->
                   IF Catches("Exception", "StoreError")
                   THEN Goto(s, l, "recv")
                   ELSE Raised(s, l, "StoreError")
            [] pc[s] \in InHandler ->
                   IF Catches("Exception", "StoreError")
                   THEN Respond(s, l, ErrorAction(l.data.action), "error",
                                <<>>, "recv")
                   ELSE Raised(s, l, "StoreError")
            [] OTHER -> FALSE
    /\ UNCHANGED <<registry, store, clock, inbox, journal, dead, hung,
                   outbox>>

----------------------------------------------------------------------------
(* The receive loop with frames in flight.                                 *)

RECURSIVE Queued(_)
Queued(n) == IF n = 0 THEN 0 ELSE Len(inbox[n]) + Queued(n - 1)

\* A frame arrives on a connection, whatever its task is doing.
Arrive(s, data, bound) ==
    /\ pc[s] \notin {"new", "closed"}
    /\ FramesTaken + Queued(MaxSessions) < bound
    /\ inbox' = [inbox EXCEPT ![s] = Append(@, data)]
    /\ UNCHANGED <<registry, store, clock, journal, dead, faults, hung, pc, loc,
                   outbox>>

\* Which of the frames received "async for message in websocket" yields.
Oldest_Newest(queue) == Len(queue)

Oldest(queue) == 1

\* The queue without its entry i.
Without(queue, i) ==
    [j \in 1..(Len(queue) - 1) |-> IF j < i THEN queue[j] ELSE queue[j + 1]]

\* The receive loop, back from handle_message, takes the next frame.
Dequeue(s) ==
    /\ pc[s] = "recv"
    /\ inbox[s] # <<>>
    /\ Handle(s, inbox[s][Oldest(inbox[s])])
    /\ inbox' = [inbox EXCEPT ![s] = Without(@, Oldest(inbox[s]))]
    /\ UNCHANGED <<registry, store, clock, journal, dead, faults, hung, outbox>>

----------------------------------------------------------------------------
(* The chat relay: connections come and go and send messages.              *)

Ghost == <<"ghost">>

Hello == <<"hello">>

ChatFrames ==
    {Frame("send_message", [workspace |-> LabName, channel |-> AllName,
                            message |-> Hello]),
     Frame("send_message", [workspace |-> Ghost, channel |-> Ghost,
                            message |-> Hello])}

\* store_message when it finds the workspace and the channel the frame names.
StoreNamedStep(s) ==
    \/ sm_find_ws(s)
    \/ sm_find_ch(s)
    \/ sm_find_user(s)
    \/ sm_insert_user(s)
    \/ sm_insert(s)

StoreMessageStep(s) ==
    \/ StoreNamedStep(s)
    \/ sm_find_any_ws(s)
    \/ sm_find_any_ch(s)

\* send_message frames, and a delete_workspace of the seeded workspace.
RelayFrames ==
    ChatFrames \cup {Frame("delete_workspace", [workspace |-> LabName])}

NextChat ==
    \E s \in Sessions :
        \/ Connect(s)
        \/ Disconnect(s)
        \/ \E data \in RelayFrames : Recv(s, data, MaxFrames)
        \/ StoreMessageStep(s)
        \/ bc(s)
        \/ DeleteWorkspaceStep(s)
        \/ wu_ws(s)
        \/ wu_bc(s)

SpecChat == Init /\ [][NextChat]_vars

----------------------------------------------------------------------------
(* Subscriptions and channel updates.                                      *)

News == <<"news">>

SubscribeFrames ==
    {Frame("get_channel_list", [workspace |-> LabName]),
     Frame("get_channel_list", [workspace |-> Ghost]),
     Frame("create_channel", [workspace |-> LabName, channel_name |-> News])}

NextSubscribe ==
    \E s \in Sessions :
        \/ Connect(s)
        \/ Disconnect(s)
        \/ \E data \in SubscribeFrames : Recv(s, data, MaxRequests)
        \/ SendChannelListStep(s)
        \/ CreateChannelStep(s)
        \/ BroadcastChannelUpdateStep(s)

SpecSubscribe == Init /\ [][NextSubscribe]_vars

----------------------------------------------------------------------------
(* Frames in flight: they arrive while a handler is in progress.           *)

NextQueue ==
    \E s \in Sessions :
        \/ Connect(s)
        \/ Disconnect(s)
        \/ \E data \in ChatFrames : Arrive(s, data, MaxFrames)
        \/ Dequeue(s)
        \/ StoreMessageStep(s)
        \/ bc(s)

SpecQueue == Init /\ [][NextQueue]_vars

----------------------------------------------------------------------------
(* Administration: workspaces and channels created, renamed and deleted    *)
(* by concurrent connections.                                              *)

PaddedLab == <<" ", "lab", " ">>

AdminFrames ==
    {Frame("create_workspace", [workspace_name |-> News]),
     Frame("create_workspace", [workspace_name |-> PaddedLab]),
     Frame("create_channel", [workspace |-> LabName, channel_name |-> News]),
     Frame("delete_workspace", [workspace |-> LabName]),
     Frame("update_workspace", [old_name |-> LabName, new_name |-> News])}

NextAdmin ==
    \E s \in Sessions :
        \/ Connect(s)
        \/ Disconnect(s)
        \/ \E data \in AdminFrames : Recv(s, data, MaxFrames)
        \/ CreateWorkspaceStep(s)
        \/ CreateChannelStep(s)
        \/ DeleteWorkspaceStep(s)
        \/ UpdateWorkspaceStep(s)
        \/ BroadcastWorkspaceUpdateStep(s)
        \/ BroadcastChannelUpdateStep(s)

SpecAdmin == Init /\ [][NextAdmin]_vars

----------------------------------------------------------------------------
(* Requests one after the other: a frame is taken only when no handler is  *)
(* in progress.                                                            *)

HashAll == <<"#", "all">>

CascadeFrames ==
    {Frame("create_channel", [workspace |-> LabName, channel_name |-> News]),
     Frame("create_channel", [workspace |-> LabName, channel_name |-> HashAll]),
     Frame("send_message", [workspace |-> LabName, channel |-> News,
                            message |-> Hello]),
     Frame("delete_channel", [workspace |-> LabName, channel |-> News]),
     Frame("delete_channel", [workspace |-> LabName, channel |-> HashAll]),
     Frame("get_channel_list", [workspace |-> LabName]),
     Frame("get_channel_data", [workspace |-> LabName, channel |-> News])}

NextCascade ==
    \E s \in Sessions :
        \/ Connect(s)
        \/ Disconnect(s)
        \/ \E data \in CascadeFrames : RecvQuiet(s, data, MaxRequests)
        \/ CreateChannelStep(s)
        \/ DeleteChannelStep(s)
        \/ BroadcastChannelUpdateStep(s)
        \/ StoreNamedStep(s)
        \/ sm_find_any_ch(s)
        \/ bc(s)
        \/ SendChannelListStep(s)
        \/ SendChannelDataStep(s)

SpecCascade == Init /\ [][NextCascade]_vars

----------------------------------------------------------------------------
(* Messages stored by concurrent connections and read back.                *)

Bye == <<"bye">>

HistoryFrames ==
    {Frame("send_message", [workspace |-> LabName, channel |-> AllName,
                            message |-> Hello]),
     Frame("send_message", [workspace |-> LabName, channel |-> AllName,
                            message |-> Bye]),
     Frame("get_channel_data", [workspace |-> LabName, channel |-> AllName])}

NextHistory ==
    \/ Tick(MaxClock)
    \/ \E s \in 1..MaxWriters :
        \/ Connect(s)
        \/ Disconnect(s)
        \/ \E data \in HistoryFrames : Recv(s, data, MaxRequests)
        \/ StoreNamedStep(s)
        \/ bc(s)
        \/ SendChannelDataStep(s)

SpecHistory == Init /\ [][NextHistory]_vars

----------------------------------------------------------------------------
(* Registration: register_user requests, one after the other.              *)

\* register_user frames: with a username, with the sender alongside, under
\* another sender's name, and with no username.
RegisterFrames ==
    {Frame("register_user", [username |-> Hello]),
     Frame("register_user", [username |-> Hello, sender |-> Hello]),
     Frame("register_user", [username |-> Ghost, sender |-> Hello]),
     Frame("register_user", [sender |-> Ghost]),
     Frame("register_user", [username |-> <<>>])}

NextRegister ==
    \E s \in Sessions :
        \/ Connect(s)
        \/ Disconnect(s)
        \/ \E data \in RegisterFrames : RecvQuiet(s, data, MaxRequests)
        \/ PreDispatchStep(s)
        \/ RegisterUserStep(s)

SpecRegister == Init /\ [][NextRegister]_vars

----------------------------------------------------------------------------
(* Connections that are lost while they are registered.  Requests are      *)
(* handled one after the other; a connection may be lost at any moment.    *)

\* A chat message, a create_workspace and a create_channel of names that
\* exist (each answers an error and notifies), and a subscription.
FanOutFrames ==
    {Frame("send_message", [workspace |-> LabName, channel |-> AllName,
                            message |-> Hello]),
     Frame("create_workspace", [workspace_name |-> PaddedLab]),
     Frame("get_channel_list", [workspace |-> LabName]),
     Frame("create_channel", [workspace |-> LabName,
                              channel_name |-> AllName])}

NextFanOut ==
    \E s \in Sessions :
        \/ Connect(s)
        \/ PeerClose(s)
        \/ Disconnect(s)
        \/ \E data \in FanOutFrames : RecvQuiet(s, data, MaxRequests)
        \/ StoreNamedStep(s)
        \/ bc(s)
        \/ cw_find(s)
        \/ BroadcastWorkspaceUpdateStep(s)
        \/ SendChannelListStep(s)
        \/ cc_find_ws(s)
        \/ cc_find_ch(s)
        \/ BroadcastChannelUpdateStep(s)

SpecFanOut == Init /\ [][NextFanOut]_vars

----------------------------------------------------------------------------
(* Failures while a frame is handled: store calls that raise, connections  *)
(* that are lost, frames that are not JSON.  Requests are handled one      *)
(* after the other.                                                        *)

Malformed == Frame(NotJson, <<>>)

FaultFrames ==
    {Malformed,
     Frame("send_message", [workspace |-> LabName, channel |-> AllName,
                            message |-> Hello]),
     Frame("get_channel_list", [workspace |-> LabName, sender |-> Hello]),
     Frame("get_channel_list", [workspace |-> SocialName]),
     Frame("create_workspace", [workspace_name |-> PaddedLab])}

NextFault ==
    \E s \in Sessions :
        \/ Connect(s)
        \/ PeerClose(s)
        \/ Disconnect(s)
        \/ \E data \in FaultFrames : RecvQuiet(s, data, MaxFrames)
        \/ DbFail(s, MaxFaults)
        \/ PreDispatchStep(s)
        \/ StoreNamedStep(s)
        \/ bc(s)
        \/ SendChannelListStep(s)
        \/ cw_find(s)
        \/ BroadcastWorkspaceUpdateStep(s)

SpecFault == Init /\ [][NextFault]_vars

----------------------------------------------------------------------------
(* Peers that stop reading.  Connections stay; the event loop runs every   *)
(* task that is ready, so every handler step that can be taken is taken.   *)

StallFrames ==
    {Frame("send_message", [workspace |-> LabName, channel |-> AllName,
                            message |-> Hello]),
     Frame("create_workspace", [workspace_name |-> PaddedLab])}

\* The steps of the handlers of connection s.
Progress(s) ==
    \/ StoreNamedStep(s)
    \/ bc(s)
    \/ cw_find(s)
    \/ BroadcastWorkspaceUpdateStep(s)

NextStall ==
    \E s \in Sessions :
        \/ Connect(s)
        \/ Stall(s)
        \/ \E data \in StallFrames : RecvQuiet(s, data, MaxFrames)
        \/ Progress(s)

SpecStall ==
    Init /\ [][NextStall]_vars /\ \A s \in Sessions : WF_vars(Progress(s))

----------------------------------------------------------------------------
(* Frames that cannot be routed, among subscriptions.  "" stands for a     *)
(* frame with no action field.                                             *)

Dance == "dance"

UnroutableFrames ==
    {Malformed,
     Frame(Dance, <<>>),
     Frame(Dance, [sender |-> Hello, workspace |-> Ghost]),
     Frame("", [workspace |-> Ghost]),
     Frame("", [sender |-> Hello])}

NextUnroutable ==
    \E s \in Sessions :
        \/ Connect(s)
        \/ Disconnect(s)
        \/ \E data \in UnroutableFrames
                       \cup {Frame("get_channel_list", [workspace |-> LabName])} :
               Recv(s, data, MaxRequests)
        \/ PreDispatchStep(s)
        \/ SendChannelListStep(s)

SpecUnroutable == Init /\ [][NextUnroutable]_vars

----------------------------------------------------------------------------
(* The life of a connection: it registers, subscribes, and is removed.     *)

\* get_channel_list of a workspace, of one that does not exist, and with
\* "workspace": null.
LifecycleFrames ==
    {Frame("get_channel_list", [workspace |-> LabName]),
     Frame("get_channel_list", [workspace |-> Ghost]),
     Frame("get_channel_list", [workspace |-> None])}

NextLifecycle ==
    \E s \in Sessions :
        \/ Connect(s)
        \/ Disconnect(s)
        \/ \E data \in LifecycleFrames : Recv(s, data, MaxRequests)
        \/ SendChannelListStep(s)

SpecLifecycle == Init /\ [][NextLifecycle]_vars

----------------------------------------------------------------------------
(* Stored messages among renames, deletions and reads, by two concurrent   *)
(* connections.                                                            *)

ArchiveFrames ==
    {Frame("send_message", [workspace |-> LabName, channel |-> AllName,
                            message |-> Hello]),
     Frame("send_message", [workspace |-> LabName, channel |-> SocialName,
                            message |-> Bye]),
     Frame("delete_channel", [workspace |-> LabName, channel |-> AllName]),
     Frame("delete_workspace", [workspace |-> LabName]),
     Frame("update_workspace", [old_name |-> LabName, new_name |-> News]),
     Frame("update_channel", [workspace |-> LabName, old_name |-> AllName,
                              new_name |-> News]),
     Frame("get_channel_data", [workspace |-> LabName, channel |-> AllName])}

NextArchive ==
    \E s \in 1..MaxWriters :
        \/ Connect(s)
        \/ Disconnect(s)
        \/ \E data \in ArchiveFrames : Recv(s, data, MaxRequests)
        \/ StoreMessageStep(s)
        \/ bc(s)
        \/ DeleteChannelStep(s)
        \/ DeleteWorkspaceStep(s)
        \/ UpdateWorkspaceStep(s)
        \/ UpdateChannelStep(s)
        \/ SendChannelDataStep(s)
        \/ BroadcastWorkspaceUpdateStep(s)
        \/ BroadcastChannelUpdateStep(s)

SpecArchive == Init /\ [][NextArchive]_vars

----------------------------------------------------------------------------
(* Search: messages are stored and searched, one request after the other.  *)

SearchFrames ==
    {Frame("send_message", [workspace |-> LabName, channel |-> AllName,
                            message |-> Hello]),
     Frame("send_message", [workspace |-> LabName, channel |-> SocialName,
                            message |-> Hello]),
     Frame("search", [query |-> Hello]),
     Frame("search", [query |-> Hello, workspace |-> LabName]),
     Frame("search", [query |-> Hello, workspace |-> LabName,
                      channel |-> AllName]),
     Frame("search", [query |-> Hello, workspace |-> Ghost]),
     Frame("search", [query |-> Hello, workspace |-> LabName,
                      channel |-> Ghost]),
     Frame("search", [query |-> Hello, workspace |-> Ghost,
                      channel |-> AllName])}

NextSearch ==
    \E s \in 1..MaxWriters :
        \/ Connect(s)
        \/ Disconnect(s)
        \/ \E data \in SearchFrames : RecvQuiet(s, data, MaxRequests)
        \/ StoreNamedStep(s)
        \/ bc(s)
        \/ SearchMessagesStep(s)

SpecSearch == Init /\ [][NextSearch]_vars

----------------------------------------------------------------------------
(* Messages sent to workspaces and channels that are there or not, one     *)
(* request after the other.                                                *)

FallbackFrames ==
    {Frame("send_message", [workspace |-> LabName, channel |-> AllName,
                            message |-> Hello]),
     Frame("send_message", [workspace |-> Ghost, channel |-> Ghost,
                            message |-> Hello]),
     Frame("create_workspace", [workspace_name |-> News]),
     Frame("delete_channel", [workspace |-> LabName, channel |-> AllName]),
     Frame("delete_channel", [workspace |-> LabName, channel |-> SocialName])}

NextFallback ==
    \E s \in 1..MaxWriters :
        \/ Connect(s)
        \/ Disconnect(s)
        \/ \E data \in FallbackFrames : RecvQuiet(s, data, MaxOrders)
        \/ StoreMessageStep(s)
        \/ bc(s)
        \/ CreateWorkspaceStep(s)
        \/ DeleteChannelStep(s)
        \/ BroadcastWorkspaceUpdateStep(s)
        \/ BroadcastChannelUpdateStep(s)

SpecFallback == Init /\ [][NextFallback]_vars

----------------------------------------------------------------------------
(* Requests that are refused: a required field is missing, or the          *)
(* workspace or channel named is not there; among requests that succeed,   *)
(* from two concurrent connections.                                        *)

RefusedFrames ==
    {Frame("create_channel", [workspace |-> Ghost, channel_name |-> News]),
     Frame("create_channel", [workspace |-> LabName]),
     Frame("delete_workspace", [workspace |-> Ghost]),
     Frame("delete_workspace", <<>>),
     Frame("delete_channel", [workspace |-> LabName, channel |-> Ghost]),
     Frame("delete_channel", [workspace |-> Ghost, channel |-> AllName]),
     Frame("delete_channel", [workspace |-> LabName]),
     Frame("update_workspace", [old_name |-> Ghost, new_name |-> News]),
     Frame("update_workspace", [old_name |-> LabName]),
     Frame("update_channel", [workspace |-> LabName, old_name |-> Ghost,
                              new_name |-> News]),
     Frame("update_channel", [workspace |-> Ghost, old_name |-> AllName,
                              new_name |-> News]),
     Frame("update_channel", [workspace |-> LabName, old_name |-> AllName])}

GrantedFrames ==
    {Frame("create_channel", [workspace |-> LabName, channel_name |-> News]),
     Frame("delete_workspace", [workspace |-> LabName]),
     Frame("delete_channel", [workspace |-> LabName, channel |-> AllName]),
     Frame("update_workspace", [old_name |-> LabName, new_name |-> Ghost]),
     Frame("update_channel", [workspace |-> LabName, old_name |-> AllName,
                              new_name |-> Ghost])}

NextRefuse ==
    \E s \in 1..MaxWriters :
        \/ Connect(s)
        \/ Disconnect(s)
        \/ \E data \in RefusedFrames \cup GrantedFrames :
               Recv(s, data, MaxFrames)
        \/ CreateChannelStep(s)
        \/ DeleteWorkspaceStep(s)
        \/ DeleteChannelStep(s)
        \/ UpdateWorkspaceStep(s)
        \/ UpdateChannelStep(s)
        \/ BroadcastWorkspaceUpdateStep(s)
        \/ BroadcastChannelUpdateStep(s)

SpecRefuse == Init /\ [][NextRefuse]_vars

----------------------------------------------------------------------------
(* Renames, and the reads that follow them, one request at a time.         *)

HashNews == <<"#", "news">>

RenameFrames ==
    {Frame("send_message", [workspace |-> LabName, channel |-> AllName,
                            message |-> Hello]),
     Frame("update_channel", [workspace |-> LabName, old_name |-> AllName,
                              new_name |-> News]),
     Frame("update_channel", [workspace |-> LabName, old_name |-> AllName,
                              new_name |-> HashNews]),
     Frame("update_workspace", [old_name |-> LabName, new_name |-> News]),
     Frame("get_channel_data", [workspace |-> LabName, channel |-> News]),
     Frame("get_channel_data", [workspace |-> LabName, channel |-> HashNews]),
     Frame("get_channel_data", [workspace |-> News, channel |-> AllName]),
     Frame("get_channel_list", [workspace |-> News])}

NextRename ==
    \E s \in 1..MaxWriters :
        \/ Connect(s)
        \/ Disconnect(s)
        \/ \E data \in RenameFrames : RecvQuiet(s, data, MaxRequests)
        \/ StoreMessageStep(s)
        \/ bc(s)
        \/ UpdateWorkspaceStep(s)
        \/ UpdateChannelStep(s)
        \/ BroadcastWorkspaceUpdateStep(s)
        \/ BroadcastChannelUpdateStep(s)
        \/ SendChannelListStep(s)
        \/ SendChannelDataStep(s)

SpecRename == Init /\ [][NextRename]_vars

----------------------------------------------------------------------------
(* Subscriptions, while the subscribed workspace is renamed, deleted and   *)
(* written to by other connections.                                        *)

FrameEffectFrames ==
    {Frame("get_channel_list", [workspace |-> LabName]),
     Frame("get_channel_list", [workspace |-> Ghost]),
     Frame("get_channel_data", [workspace |-> LabName, channel |-> AllName]),
     Frame("send_message", [workspace |-> LabName, channel |-> AllName,
                            message |-> Hello]),
     Frame("update_workspace", [old_name |-> LabName, new_name |-> News]),
     Frame("delete_workspace", [workspace |-> LabName]),
     Frame("delete_channel", [workspace |-> LabName, channel |-> AllName])}

NextFrameEffect ==
    \E s \in 1..MaxWriters :
        \/ Connect(s)
        \/ Disconnect(s)
        \/ \E data \in FrameEffectFrames : Recv(s, data, MaxRequests)
        \/ SendChannelListStep(s)
        \/ SendChannelDataStep(s)
        \/ StoreMessageStep(s)
        \/ bc(s)
        \/ UpdateWorkspaceStep(s)
        \/ DeleteWorkspaceStep(s)
        \/ DeleteChannelStep(s)
        \/ BroadcastWorkspaceUpdateStep(s)
        \/ BroadcastChannelUpdateStep(s)

SpecFrameEffect == Init /\ [][NextFrameEffect]_vars

----------------------------------------------------------------------------
(* Workspaces are created while the list of workspaces is read: the only   *)
(* writes to the store are those of create_workspace.                      *)

SeedFrames ==
    {Frame("create_workspace", [workspace_name |-> News]),
     Frame("create_workspace", [workspace_name |-> Ghost]),
     Frame("get_workspace_list", <<>>)}

NextSeed ==
    \E s \in 1..MaxWriters :
        \/ Connect(s)
        \/ Disconnect(s)
        \/ \E data \in SeedFrames : Recv(s, data, MaxFrames)
        \/ CreateWorkspaceStep(s)
        \/ BroadcastWorkspaceUpdateStep(s)
        \/ SendWorkspaceListStep(s)

SpecSeed == Init /\ [][NextSeed]_vars

----------------------------------------------------------------------------
(* The claims.                                                             *)

\* C1: the envelope of a send_message frame of connection s is never handed
\* to s itself: no fan-out of s has sent to s, and the envelope last handed
\* to s is not one of its own chat envelopes.
C1_NoEcho ==
    \A s \in Sessions :
        /\ loc[s].data.action = "send_message" => loc[s].sent[s] = 0
        /\ ~(outbox[s].action = "send_message" /\ outbox[s].origin = s)

\* A fan-out of s, still running, has handed its envelope to another connection
\* while s is registered.
C1_Witness ==
    \E s \in clients : \E r \in clients \ {s} :
        /\ pc[s] = "bc"
        /\ loc[s].sent[r] = 1
        /\ outbox[r] = ChatEnvelope(s)

\* C2: when the handling of a send_message frame of s has returned, every
\* other connection that was registered from the start of the fan-out to its
\* end was sent the envelope exactly once.
C2_EveryStableSessionOnce ==
    \A s \in Sessions :
        (pc[s] = "recv" /\ loc[s].data.action = "send_message")
            => \A r \in loc[s].it.old \ {s} : loc[s].sent[r] = 1

\* C3: a channel_update notification for workspace W is handed only to a
\* connection whose subscription, when it is handed over, is W; and when a
\* get_channel_list has been handled, the connection's subscription is the
\* workspace it named.
C3_OnlySubscribers ==
    /\ \A r \in Sessions :
           outbox[r].action = "channel_update"
               => outbox[r].sub = outbox[r].workspace
    /\ \A s \in clients :
           (pc[s] = "recv" /\ loc[s].data.action = "get_channel_list")
               => client_info[s].workspace = cl_workspace(loc[s].data)

\* Of three registered connections one, subscribed to the workspace, holds
\* its channel_update while the scan has passed over one subscribed to
\* another workspace, which holds none.
C3_Witness ==
    \E s \in clients : \E r, t \in clients :
        /\ pc[s] = "cu_bc"
        /\ {r, t} \subseteq loc[s].it.visited
        /\ outbox[r].action = "channel_update"
        /\ outbox[r].workspace = LabName
        /\ client_info[t].workspace = Ghost
        /\ outbox[t].action # "channel_update"

\* C4: the envelope of a send_message frame is handed to a recipient only
\* when the frame's message has been inserted.
C4_DeliveredOnlyIfStored ==
    \A s \in Sessions : \A r \in Sessions :
        (loc[s].data.action = "send_message" /\ loc[s].sent[r] > 0)
            => loc[s].stored # 0

\* C5: the receive loop takes a frame of a connection only when the handling
\* of the frame before has returned, and the frame it takes is the oldest of
\* those received.
C5_InArrivalOrder ==
    [][\A s \in Sessions :
          loc'[s].fid # loc[s].fid
              => /\ pc[s] = "recv"
                 /\ inbox[s] # <<>>
                 /\ loc'[s].fid = loc[s].fid + 1
                 /\ loc'[s].data = Head(inbox[s])
                 /\ inbox'[s] = Tail(inbox[s])]_vars

\* The second frame of a connection, another than the first, is in its
\* queue while the fan-out of the first is suspended.
C5_Witness ==
    \E s \in clients :
        /\ pc[s] = "bc"
        /\ loc[s].fid = 1
        /\ inbox[s] # <<>>
        /\ Head(inbox[s]) # loc[s].data

\* C6: every stored channel's workspace_id is the _id of a stored workspace.
C6_ChannelsResolve ==
    \A c \in Docs(channels) : c.workspace_id \in Ids(workspaces)

\* C7: no two stored workspaces have the same name.
C7_UniqueNames ==
    \A i, j \in DOMAIN workspaces :
        i # j => workspaces[i].name # workspaces[j].name

\* C8: a get_channel_list for W, handled after a create_channel of W/C and a
\* successful delete_channel of W/C, does not contain C; and no stored
\* message refers to a channel that is not stored.
C8_Cascade ==
    [][/\ \A s \in Sessions :
             (pc[s] = "cl_find_chs" /\ pc'[s] = "cl_set")
                 => \A d \in journal.deleted :
                        d.workspace = cl_workspace(loc[s].data)
                            => \A i \in DOMAIN loc'[s].resp.message :
                                   loc'[s].resp.message[i] # d.channel
       /\ \A m \in Docs(messages') : m.channel_id \in Ids(channels')]_vars

\* What C9 says of the content: the message inserted carries the frame's
\* content, in the channel the frame names when it was found, and
\* get_channel_data returns every stored message of the channel with that
\* content, in non-descending order of created_at.
C9_Content(s) ==
    /\ (pc[s] = "sm_insert" /\ pc'[s] = "bc")
           => LET m == messages'[Len(messages')]
              IN /\ m.content = Get(loc[s].data, "message", <<>>)
                 /\ m.channel_id = loc[s].channel.id
                 /\ m.workspace_id = loc[s].workspace.id
    /\ (pc[s] = "cd_find_msgs" /\ pc'[s] = "recv")
           => LET cur == loc'[s].cursor
                  out == loc'[s].resp.message
              IN /\ \A m \in MessagesOf(loc[s].workspace.id,
                                        loc[s].channel.id) :
                        \E i \in DOMAIN cur :
                            cur[i] = m /\ out[i].message = m.content
                 /\ \A i, j \in DOMAIN cur :
                        i < j => cur[i].created_at <= cur[j].created_at

\* C9, by timestamp: the content round-trips and the messages come in
\* ascending order of the timestamp store_message read.
C9_RoundTripByTimestamp == [][\A s \in Sessions : C9_Content(s)]_vars

\* C9, by storage: moreover that order is the order in which the messages
\* were stored (said here only of messages whose timestamps differ).
C9_RoundTripInStoredOrder ==
    [][\A s \in Sessions :
          /\ C9_Content(s)
          /\ (pc[s] = "cd_find_msgs" /\ pc'[s] = "recv")
                 => LET cur == loc'[s].cursor
                    IN \A i, j \in DOMAIN cur :
                           (i < j /\ cur[i].created_at # cur[j].created_at)
                               => cur[i].id < cur[j].id]_vars

\* A get_channel_data has returned two messages of different content whose
\* timestamps differ.
C9_Witness ==
    \E s \in clients :
        /\ pc[s] = "recv"
        /\ loc[s].resp.action = "channel_data"
        /\ Len(loc[s].cursor) = 2
        /\ loc[s].resp.message[1].message # loc[s].resp.message[2].message
        /\ loc[s].cursor[1].created_at < loc[s].cursor[2].created_at

\* The handler of connection s is past the find_one of a create_workspace
\* that found the name, or is about to resume from it.
Duplicate(s) ==
    /\ loc[s].data.action = "create_workspace"
    /\ \/ /\ pc[s] = "cw_find"
          /\ FindWorkspaceByName(cw_name(loc[s].data)).id # 0
       \/ /\ pc[s] \in {"wu_ws", "wu_ch", "wu_bc"}
          /\ loc[s].resp.status = "error"

\* C10: a create_workspace that finds its name stored answers with an error
\* and none of its steps writes to the store.
C10_DuplicateLeavesStore ==
    [][\A s \in Sessions :
          (Duplicate(s) /\ pc'[s] # pc[s])
              => /\ loc'[s].resp.action = "create_workspace_response"
                 /\ loc'[s].resp.status = "error"
                 /\ workspaces' = workspaces
                 /\ channels' = channels
                 /\ messages' = messages]_vars

\* The duplicate has been answered with an error, the workspace and its
\* two channels are as they were seeded, and the update is being sent.
C10_Witness ==
    \E s \in clients :
        /\ loc[s].data.action = "create_workspace"
        /\ pc[s] = "wu_bc"
        /\ loc[s].resp.status = "error"
        /\ loc[s].it.visited # {}
        /\ workspaces = <<[id |-> 1, name |-> LabName]>>
        /\ Len(channels) = 2

\* C11: register_user is idempotent.  With the requests handled one after
\* the other, a username never has more than one user record, a connection
\* whose register_user request has been answered is bound to the identifier
\* of that record, and so two such connections with the same username are
\* bound to the same identifier.
Registered(s) ==
    /\ s \in clients
    /\ pc[s] = "recv"
    /\ loc[s].data.action = "register_user"
    /\ ~Falsy(ru_username(loc[s].data))
    /\ loc[s].resp.status = "success"

C11_RegisterIdempotent ==
    /\ \A i, j \in DOMAIN users :
           users[i].username = users[j].username => i = j
    /\ \A s \in Sessions :
           Registered(s) =>
               /\ client_info[s].user_id # 0
               /\ client_info[s].user_id
                      = FindUser(ru_username(loc[s].data)).id
    /\ \A s, t \in Sessions :
           /\ Registered(s)
           /\ Registered(t)
           /\ ru_username(loc[s].data) = ru_username(loc[t].data)
           => client_info[s].user_id = client_info[t].user_id

\* Two connections registered the same username, one of them twice, and
\* there is one record of it.
C11_Witness ==
    \E s, t \in Sessions :
        /\ s # t
        /\ Registered(s)
        /\ Registered(t)
        /\ loc[s].fid = 2
        /\ ru_username(loc[s].data) = Hello
        /\ ru_username(loc[t].data) = Hello
        /\ client_info[s].user_id = client_info[t].user_id
        /\ Cardinality({i \in DOMAIN users : users[i].username = Hello}) = 1

\* The recipients a fan-out of s is meant for.
FanOut == {"bc", "wu_bc", "cu_bc"}

Intended(s, r) ==
    CASE pc[s] = "bc" -> IsRecipient(r, s)
      [] pc[s] = "wu_bc" -> TRUE
      [] pc[s] = "cu_bc" ->
             r \in clients
                 /\ IsSubscribed(client_info[r], cu_workspace(loc[s].data))
      [] OTHER -> FALSE

C13_StoreFailureAnswered ==
    \A s \in clients \ dead :
        (pc[s] = "recv" /\ loc[s].dbfail) => loc[s].resp.status = "error"

\* A failure is raised in the handling of a frame of s: a store call raises,
\* a send raises, the frame is not JSON, or a loop over the registry finds
\* it changed.
Fails(s) ==
    \/ loc'[s].dbfail /\ ~loc[s].dbfail
    \/ loc'[s].failed \ loc[s].failed # {}
    \/ /\ loc'[s].error # ""
       /\ loc'[s].error # loc[s].error \/ loc'[s].fid # loc[s].fid

\* C14: no failure raised while a frame of s is handled ends the
\* connection.  The step in which it is raised leaves s registered, its
\* subscription as it was, and its task in the handler or back in the
\* receive loop, never past it.
C14_FailureKeepsConnection ==
    [][\A s \in Sessions :
          Fails(s) =>
              /\ s \in clients'
              /\ client_info'[s].workspace = client_info[s].workspace
              /\ pc'[s] \notin {"finally", "closed", "new"}
      ]_vars

\* The first frame of a connection met a store call that raised; its second
\* frame, a get_channel_list, was handled and subscribed it.
C14_Witness ==
    \E s \in clients \ dead :
        /\ pc[s] = "recv"
        /\ loc[s].fid = 2
        /\ faults = 1
        /\ ~loc[s].dbfail
        /\ loc[s].data.action = "get_channel_list"
        /\ loc[s].resp.action = "channel_list"
        /\ client_info[s].workspace = LabName

\* C15: no fan-out attempts a send to a connection that has closed: no loop
\* of any task has met a recipient whose send raised ConnectionClosed.
C15_NoSendToClosed ==
    \A s \in Sessions : loc[s].failed = {}

\* C16: a recipient whose send does not complete holds back only its own
\* delivery.  With every connection registered (so that the registry cannot
\* change under the loop), an intended recipient of a fan-out of s whose
\* peer is reading is eventually handed the envelope, unless its own peer
\* stops reading first.
C16_HungRecipientIsolated ==
    \A s, r \in Sessions :
        (/\ clients = Sessions
         /\ pc[s] \in {"bc", "wu_bc"}
         /\ Intended(s, r)
         /\ r \notin hung)
            ~> (loc[s].sent[r] >= 1 \/ r \in hung)

\* A frame that cannot be routed: it is not JSON, or its action is absent
\* or none of those dispatched on.
Unroutable(data) == ~WellFormed(data) \/ data.action \notin Supported

\* C17: every step of the handling of a frame that cannot be routed sends
\* no envelope to any connection, answers nothing to the requester, and
\* leaves the workspaces, the channels, the messages and every subscription
\* as they were.  (It may create the sender's user record and bind it.)
C17_UnroutableIsNoOp ==
    [][\A s \in Sessions :
          (/\ loc'[s].fid > 0
           /\ Unroutable(loc'[s].data)
           /\ pc'[s] # "closed"
           /\ pc'[s] # pc[s] \/ loc'[s] # loc[s])
              => /\ outbox' = outbox
                 /\ loc'[s].resp = NoResp
                 /\ workspaces' = workspaces
                 /\ channels' = channels
                 /\ messages' = messages
                 /\ clients' = clients
                 /\ \A t \in clients :
                        client_info'[t].workspace = client_info[t].workspace
      ]_vars

\* A subscribed connection sent a frame with an unknown action and a sender:
\* the handling has returned, the sender is bound, the subscription stands
\* and nothing was answered.
C17_Witness ==
    \E s \in clients :
        /\ pc[s] = "recv"
        /\ loc[s].fid = 2
        /\ loc[s].data.action = Dance
        /\ client_info[s].user_id # 0
        /\ client_info[s].workspace = LabName
        /\ loc[s].resp = NoResp
        /\ Len(users) = 1

\* C18: the life of a connection only moves forward.  It registers with no
\* subscription; while it is registered a subscription, once set, is never
\* unset again; and once it is removed it is never registered again.
C18_LifecycleForward ==
    [][\A s \in Sessions :
          /\ (s \notin clients /\ s \in clients') =>
                 /\ pc[s] = "new"
                 /\ client_info'[s].workspace = None
          /\ (s \in clients /\ s \in clients') =>
                 (client_info[s].workspace # None
                      => client_info'[s].workspace # None)
          /\ pc[s] = "closed" => (pc'[s] = "closed" /\ s \notin clients')
      ]_vars

\* C19: when the handling of a create_workspace, delete_workspace or
\* update_workspace that answered success has returned, every connection
\* that was registered from the start of the workspace_update fan-out to its
\* end, the requester included, was sent the notification once.
C19_EveryLiveSessionNotified ==
    \A s \in Sessions :
        (/\ pc[s] = "recv"
         /\ loc[s].data.action \in {"create_workspace", "delete_workspace",
                                    "update_workspace"}
         /\ loc[s].resp.status = "success")
            => \A r \in loc[s].it.old : loc[s].sent[r] = 1

\* The handling of a get_channel_list frame of s returns in this step.
ListReturns(s) ==
    /\ loc[s].data.action = "get_channel_list"
    /\ pc[s] \in {"cl_find_ws", "cl_find_chs", "cl_set"}
    /\ pc'[s] = "recv"

\* C20: the subscription of a registered connection changes only when the
\* handling of one of its get_channel_list frames returns without an error,
\* and then it is the workspace that frame names; a get_channel_list whose
\* store call or response send raised leaves it as it was.  So at every
\* point it is unset, as at registration, or names the workspace of the
\* latest get_channel_list that did not end in an error.
C20_SubscriptionIsLatestList ==
    [][\A s \in Sessions :
          /\ (s \notin clients /\ s \in clients') =>
                 client_info'[s].workspace = None
          /\ (s \in clients /\ s \in clients') =>
                 /\ client_info'[s].workspace # client_info[s].workspace =>
                        /\ ListReturns(s)
                        /\ loc'[s].error = ""
                 /\ ListReturns(s) =>
                        IF loc'[s].error = ""
                        THEN client_info'[s].workspace
                                 = cl_workspace(loc[s].data)
                        ELSE client_info'[s].workspace
                                 = client_info[s].workspace
      ]_vars

\* A subscribed connection's second get_channel_list, of another workspace,
\* met a store call that raised: it was answered an error and the
\* subscription is still the first.
C20_Witness ==
    \E s \in clients \ dead :
        /\ pc[s] = "recv"
        /\ loc[s].fid = 2
        /\ loc[s].data.action = "get_channel_list"
        /\ cl_workspace(loc[s].data) = SocialName
        /\ loc[s].dbfail
        /\ loc[s].resp.status = "error"
        /\ client_info[s].workspace = LabName

\* The task of s deletes the messages of channel_id, or of workspace_id, in
\* this step: delete_channel's or delete_workspace's delete_many.
Cascades(s, m) ==
    /\ pc'[s] # pc[s]
    /\ \/ pc[s] = "dc_del_msgs" /\ loc[s].channel.id = m.channel_id
       \/ pc[s] = "dw_del_msgs" /\ loc[s].workspace.id = m.workspace_id

\* C21: a stored message is immutable.  In every step each message of the
\* store is in the store afterwards with every field as it was, unless the
\* step is the delete_many of a delete_channel of the message's channel or
\* of a delete_workspace of the message's workspace.
C21_MessagesImmutable ==
    [][\A i \in DOMAIN messages :
          \/ \E j \in DOMAIN messages' : messages'[j] = messages[i]
          \/ \E s \in Sessions : Cascades(s, messages[i])
      ]_vars

\* A message is stored, its channel has since been renamed by a successful
\* update_channel, and the message is as it was stored.
C21_Witness ==
    \E s \in clients :
        /\ pc[s] = "recv"
        /\ loc[s].data.action = "update_channel"
        /\ loc[s].resp.status = "success"
        /\ Len(messages) = 1
        /\ messages[1].content = Hello
        /\ messages[1].channel_id = 2
        /\ FindChannel(News, 1).id = 2

\* C22: when a search that carries a workspace filter W has been answered,
\* every result is a message stored in the workspace named W, and if it
\* carries a channel filter Ch too, in the channel named Ch of that
\* workspace; so with a W or Ch that names nothing there is no result.
C22_FiltersRestrict ==
    \A s \in clients :
        (/\ pc[s] = "recv"
         /\ loc[s].data.action = "search"
         /\ loc[s].resp.status = "success"
         /\ ~Falsy(se_workspace(loc[s].data)))
            => LET w == FindWorkspaceByName(se_workspace(loc[s].data))
                   c == FindChannel(se_channel(loc[s].data), w.id)
                   results == loc[s].resp.message
               IN \A i \in DOMAIN results :
                      /\ w.id # 0
                      /\ results[i].workspace_id = w.id
                      /\ ~Falsy(se_channel(loc[s].data)) =>
                             /\ c.id # 0
                             /\ results[i].channel_id = c.id

\* Some workspace has a channel.
Stocked ==
    \E w \in Docs(workspaces) : \E c \in Docs(channels) :
        c.workspace_id = w.id

\* C23: when the handling of a send_message returns while some workspace
\* has a channel, it has stored one message, whose workspace and channel
\* both exist, the channel being one of that workspace.
C23_FallbackStores ==
    [][\A s \in Sessions :
          (/\ pc[s] = "bc"
           /\ pc'[s] = "recv"
           /\ loc[s].data.action = "send_message"
           /\ Stocked)
              => \E m \in Docs(messages) :
                     /\ m.id = loc[s].stored
                     /\ \E w \in Docs(workspaces) : w.id = m.workspace_id
                     /\ \E c \in Docs(channels) :
                            /\ c.id = m.channel_id
                            /\ c.workspace_id = m.workspace_id
      ]_vars

\* The frame lacks a field its handler requires.
Missing(data) ==
    CASE data.action = "create_channel" -> cc_channel(data) = <<>>
      [] data.action = "delete_workspace" -> dw_workspace(data) = <<>>
      [] data.action = "delete_channel" ->
             dc_channel(data) = <<>> \/ dc_workspace(data) = <<>>
      [] data.action = "update_workspace" ->
             uw_old(data) = <<>> \/ uw_new(data) = <<>>
      [] data.action = "update_channel" ->
             uc_workspace(data) = <<>> \/ uc_old(data) = <<>>
                 \/ uc_new(data) = <<>>
      [] OTHER -> FALSE

\* The labels at which a handler awaits the lookup of the workspace or the
\* channel the request refers to.
Lookups ==
    {"cc_find_ws", "dw_find", "dc_find_ws", "dc_find_ch", "uw_find",
     "uc_find_ws", "uc_find_ch"}

\* The task of s takes this step.
Acts(s) == pc'[s] # pc[s] \/ loc'[s].fid # loc[s].fid

\* This step of s refuses its request: a frame that lacks a required field
\* is received, or a lookup finds nothing.
Refuses(s) ==
    /\ Acts(s)
    /\ pc'[s] = "recv"
    /\ \/ pc[s] = "recv" /\ Missing(loc'[s].data)
       \/ pc[s] \in Lookups

\* C24: a create_channel, delete_workspace, delete_channel, update_workspace
\* or update_channel that is refused for a missing field or for a workspace
\* or channel that is not there is answered with one error response, the
\* only response of its handling; no notification is sent; and neither the
\* refusing step nor the lookups before it change the workspaces, the
\* channels or the messages.
C24_RefusalLeavesNoTrace ==
    [][\A s \in Sessions :
          /\ (Acts(s) /\ (pc[s] \in Lookups \/ Refuses(s))) =>
                 /\ workspaces' = workspaces
                 /\ channels' = channels
                 /\ messages' = messages
                 /\ outbox' = outbox
                 /\ loc'[s].it = NoIter
                 /\ loc[s].resp = NoResp \/ pc[s] = "recv"
                 /\ loc'[s].resp # NoResp => pc'[s] = "recv"
          /\ Refuses(s) =>
                 /\ loc'[s].resp.status = "error"
                 /\ loc'[s].sent = [r \in Sessions |-> 0]
          /\ (Acts(s) /\ pc[s] = "recv" /\ Missing(loc'[s].data)) =>
                 pc'[s] = "recv"
      ]_vars

\* Each kind has happened: a connection's update_channel was refused for a
\* channel that is not there, the other's delete_channel for a missing field.
C24_Witness ==
    \E s, t \in clients :
        /\ pc[s] = "recv"
        /\ pc[t] = "recv"
        /\ loc[s].data.action = "update_channel"
        /\ ~Missing(loc[s].data)
        /\ loc[s].resp = Response("update_channel_response", "error", Ghost)
        /\ loc[t].data.action = "delete_channel"
        /\ Missing(loc[t].data)
        /\ loc[t].resp.status = "error"
        /\ Len(channels) = 2

\* The rename connection s asked for succeeded and is handled to its end.
Renamed(s, action) ==
    /\ pc[s] = "recv"
    /\ loc[s].data.action = action
    /\ loc[s].resp.status = "success"

\* This step answers the get_channel_data of t.
AnswersData(t) ==
    /\ pc[t] \in {"cd_find_ws", "cd_find_ch", "cd_find_msgs"}
    /\ pc'[t] = "recv"

\* The response of t carries the messages of channel cid of workspace wid,
\* oldest first.
CarriesMessagesOf(t, wid, cid) ==
    /\ loc'[t].resp.status # "error"
    /\ \E msgs \in Sorted(MessagesOf(wid, cid), "created_at") :
           loc'[t].resp.message = Entries(msgs)

\* C25: renames preserve content.  After a successful update_channel of W
\* from Ch to Ch2, get_channel_data for W/Ch2 returns the messages of the
\* renamed channel; after a successful update_workspace from A to B,
\* get_channel_list for B returns the names of the channels of the renamed
\* workspace and get_channel_data for B/Ch the messages of its channel Ch.
\* The names are the ones the rename request gave.
C25_RenamePreservesContent ==
    [][\A s, t \in Sessions :
          /\ (/\ Renamed(s, "update_channel")
              /\ AnswersData(t)
              /\ Get(loc[t].data, "workspace", Default)
                     = Get(loc[s].data, "workspace", <<>>)
              /\ Get(loc[t].data, "channel", Default)
                     = Get(loc[s].data, "new_name", <<>>)
              /\ Existing(FindChannel(uc_new(loc[s].data),
                     FindWorkspaceByName(uc_workspace(loc[s].data)).id)))
                 => LET w == FindWorkspaceByName(uc_workspace(loc[s].data))
                        c == FindChannel(uc_new(loc[s].data), w.id)
                    IN CarriesMessagesOf(t, w.id, c.id)
          /\ (/\ Renamed(s, "update_workspace")
              /\ AnswersData(t)
              /\ Get(loc[t].data, "workspace", Default)
                     = Get(loc[s].data, "new_name", <<>>)
              /\ Existing(FindWorkspaceByName(uw_new(loc[s].data)))
              /\ Existing(FindChannel(cd_channel(loc[t].data),
                     FindWorkspaceByName(uw_new(loc[s].data)).id)))
                 => LET w == FindWorkspaceByName(uw_new(loc[s].data))
                        c == FindChannel(cd_channel(loc[t].data), w.id)
                    IN CarriesMessagesOf(t, w.id, c.id)
          /\ (/\ Renamed(s, "update_workspace")
              /\ pc[t] \in {"cl_find_ws", "cl_find_chs"}
              /\ pc'[t] = "cl_set"
              /\ Get(loc[t].data, "workspace", Default)
                     = Get(loc[s].data, "new_name", <<>>)
              /\ Existing(FindWorkspaceByName(uw_new(loc[s].data))))
                 => LET w == FindWorkspaceByName(uw_new(loc[s].data))
                    IN \E chs \in Sorted(ChannelsOf(w.id), "name") :
                           loc'[t].resp.message = NamesOf(chs)
      ]_vars

\* C26: the subscription of a connection changes only in the handling of
\* its own get_channel_list, which sets it to the workspace name requested;
\* every other step, of any connection and of any action, leaves the
\* subscription of every connection that stays registered as it was.
C26_OnlyOwnListSubscribes ==
    [][\A t \in clients \cap clients' :
          client_info'[t].workspace # client_info[t].workspace
              => /\ pc[t] = "cl_set"
                 /\ pc'[t] = "recv"
                 /\ loc[t].data.action = "get_channel_list"
                 /\ client_info'[t].workspace = cl_workspace(loc[t].data)
      ]_vars

\* A connection is subscribed to 'lab' and another's delete_workspace of
\* 'lab' has been handled to its end: the subscription still names it.
C26_Witness ==
    \E s, t \in clients :
        /\ s # t
        /\ client_info[t].workspace = LabName
        /\ pc[s] = "recv"
        /\ loc[s].data.action = "delete_workspace"
        /\ loc[s].resp.status = "success"
        /\ workspaces = <<>>

\* Every workspace of the dict d is listed with both default channels.
Seeded(d) ==
    \A i \in DOMAIN d :
        {AllName, SocialName} \subseteq {d[i].value[j] : j \in DOMAIN d[i].value}

\* C27: while the only writes are those of create_workspace, every workspace
\* that a workspace_update notification or a workspace_list response lists
\* is listed with both of its default channels.
C27_SeedingNotSeenHalfDone ==
    \A s \in Sessions :
        /\ outbox[s].action = "workspace_update" => Seeded(outbox[s].message)
        /\ loc[s].resp.action = "workspace_list" => Seeded(loc[s].resp.message)

====
